---------------------------- MODULE Spec2Model ----------------------------
(***************************************************************************)
(* Selium: the per-stream frame codec (protocol/src/codec.rs), the         *)
(* memory-mapped segment index (log/src/index/mmap.rs), the pub/sub topic  *)
(* actor (server/src/topic/pubsub.rs), the client's pub/sub streams        *)
(* (client/src/streams/pubsub), the log cleaner (log/src/tasks/cleaner.rs) *)
(* and the broker's dispatcher (server/src/server.rs).                     *)
(*                                                                         *)
(* SpecCodec  one Codec driven by direct calls of Codec::state             *)
(* SpecWire   Encoder::encode on a sending codec, Decoder::decode on the   *)
(*            peer's codec, over one byte buffer                            *)
(* SpecIndex  Mmap::push / Mmap::find / Mmap::get_current_offset            *)
(* SpecTopic  pubsub::Topic::run, Subscribers::run and the subscriber      *)
(*            tasks of one topic; SpecTopicLive adds the scheduler's        *)
(*            fairness to the tasks                                         *)
(* SpecSubscriber  the client Subscriber's poll_next                        *)
(* SpecCleaner     CleanerTask::start / run / Drop over a log's segments    *)
(* SpecServer      Server::listen / shutdown and the handle_stream tasks    *)
(* SpecKeepAlive   KeepAlive::request / listen / try_reconnect              *)
(*                 (client/src/keep_alive/reqrep.rs)                        *)
(* SpecReconnect   reestablish_connection / open_stream of the client's     *)
(*                 Publisher, Subscriber and Replier                        *)
(* SpecReqRep      the request/reply topic actor                            *)
(* SpecActor       pubsub::Topic::run with failing clients and a failing    *)
(*                 supervisor queue                                         *)
(* SpecPublisher   the client Publisher with batching: start_send,          *)
(*                 poll_ready, finish, on_reconnect                         *)
(***************************************************************************)
EXTENDS Integers, Sequences, FiniteSets, TLC

VARIABLES
    codec,      \* the Codec under test: last_frame, max_frame_size, stream_type, path
    call,       \* the last direct call of Codec::state on codec: arguments, result, state before
    hist,       \* what codec has accepted so far (history of the accepted frames)
    rx,         \* the peer's Codec, which decodes what codec encoded
    dst,        \* the BytesMut that encode writes into and decode reads from
    enc,        \* the last call of Encoder::encode on codec: frame, result, bytes emitted
    dec,        \* the result of Decoder::decode on rx since the last encode, if any
    mmap,       \* the bytes of the index file, as Mmap maps them
    entries,    \* the entries pushed into mmap so far, in the order of the pushes
    found,      \* the result of Mmap::find since the last push, if any
    log,        \* the topic's MessageLog: the messages written, in offset order
    published,  \* the frames whose payload was written to log, in the same order
    topic,      \* pubsub::Topic: publishers (StreamMap keys), next_stream_id, the run() task
    handle,     \* the channel the dispatcher registers sockets on: open or closed
    notify,     \* the queue from Topic to Subscribers::run: subscribers not yet spawned
    subscribers,\* the Subscriber of each registered sink: offset, task position, frames sent
    supervisor, \* Subscribers: its cancellation token and whether run() has returned
    step,       \* the last frame the publisher arm of Topic::run took, and what it did
    stream,     \* the frames the broker has sent to a client Subscriber, not yet polled
    message_batch, \* the client Subscriber's message_batch
    yielded,    \* what the client Subscriber's poll_next has returned, in order
    arrived,    \* the messages of the frames sent to the client, in the publisher's order
    segments,   \* the log's segments in base-offset order: the last one is active
    now,        \* the clock the entries' timestamps and the cleaner read
    cleaner,    \* CleanerTask: its token, its spawned task, the owner's handle
    pass,       \* the last pass of the cleaner: the segments before and after, the time
    endpoint,   \* the broker's transport endpoint
    server,     \* Server::listen: where it is, the connections it has accepted
    topics,     \* Server::topics: topic name to Sender
    topic_handles, \* Server::topic_handles: the JoinHandles of the topic tasks
    locks,      \* who holds the mutex of topics and of topic_handles
    handlers,   \* the handle_stream tasks: the header frame each read, where each is
    keep,       \* a KeepAlive<T>: the user operation in progress, its backoff iterator
    link,       \* a client stream being (re)opened: the steps taken, the stream held
    reqrep,     \* reqrep::Topic: the bound replier, the requestors, the requests
    publisher   \* a batching client Publisher: its pending batch, its stream

codecVars == <<codec, call, hist>>

wireVars == <<rx, dst, enc, dec>>

indexVars == <<mmap, entries, found>>

topicVars == <<log, published, topic, handle, notify, subscribers, supervisor, step>>

clientVars == <<stream, message_batch, yielded, arrived>>

cleanerVars == <<segments, now, cleaner, pass>>

serverVars == <<endpoint, server, topics, topic_handles, locks, handlers>>

sessionVars == <<keep, link, reqrep, publisher>>

brokerVars == <<topicVars, clientVars, cleanerVars, serverVars, sessionVars>>

vars == <<codec, call, hist, rx, dst, enc, dec, mmap, entries, found,
          log, published, topic, handle, notify, subscribers, supervisor, step,
          stream, message_batch, yielded, arrived,
          segments, now, cleaner, pass,
          endpoint, server, topics, topic_handles, locks, handlers,
          keep, link, reqrep, publisher>>

-----------------------------------------------------------------------------
(* Frames                                                                  *)

None == "none"

StreamTypes == {"Publisher", "Subscriber", "Replier", "Requestor"}

FrameTypes == {"Init", "NewStream", "Message", "Batch", "Request", "Reply",
               "ServerRequest", "ServerReply", "Signal"}

\* topic paths a NewStream frame may carry
Paths == {"/moo/cow", "/acme/stocks"}

SENDING == TRUE

RECEIVING == FALSE

MAX_FRAME_SIZE == 1024 * 1024

\* a payload Vec<u8>: len bytes, each equal to fill
Body(len, fill) == [len |-> len, fill |-> fill]

\* the payloads frames carry: empty, one byte, and one too long for any frame
Bodies == {Body(0, 0), Body(1, 7), Body(MAX_FRAME_SIZE, 0)}

RequestIds == {0}

ClientIds == {12}

Signals == {"UnknownError", "Shutdown"}

NewStream(ty, path) == [ty |-> "NewStream", role |-> ty, path |-> path]

Message(body) == [ty |-> "Message", body |-> body]

Batch(body) == [ty |-> "Batch", body |-> body]

Request(rid, body) == [ty |-> "Request", rid |-> rid, body |-> body]

Reply(rid, body) == [ty |-> "Reply", rid |-> rid, body |-> body]

ServerRequest(cid, rid, body) ==
    [ty |-> "ServerRequest", cid |-> cid, rid |-> rid, body |-> body]

ServerReply(cid, rid, body) ==
    [ty |-> "ServerReply", cid |-> cid, rid |-> rid, body |-> body]

Signal(kind) == [ty |-> "Signal", kind |-> kind]

\* the frames the codec is called with
Frames ==
    {NewStream(r, p) : r \in StreamTypes, p \in Paths}
        \cup {Message(b) : b \in Bodies}
        \cup {Batch(b) : b \in Bodies}
        \cup {Request(i, b) : i \in RequestIds, b \in Bodies}
        \cup {Reply(i, b) : i \in RequestIds, b \in Bodies}
        \cup {ServerRequest(c, i, b) : c \in ClientIds, i \in RequestIds, b \in Bodies}
        \cup {ServerReply(c, i, b) : c \in ClientIds, i \in RequestIds, b \in Bodies}
        \cup {Signal(k) : k \in Signals}

-----------------------------------------------------------------------------
(* Codec                                                                   *)

\* impl Default for Codec
Default ==
    [last_frame |-> "Init", max_frame_size |-> MAX_FRAME_SIZE,
     stream_type |-> None, path |-> None]

is_publisher(self) == self.stream_type = "Publisher"

is_subscriber(self) == self.stream_type = "Subscriber"

is_replier(self) == self.stream_type = "Replier"

is_requestor(self) == self.stream_type = "Requestor"

is_valid_newstream_recv(self, sending) ==
    ~sending /\ self.last_frame = "Init"

is_valid_newstream_any(self, sending) == sending

\* a NewStream check that also lets a codec through that has only seen Signals
is_valid_newstream_after_signal(self, sending) ==
    sending /\ self.last_frame \in {"Init", "Signal"}

is_valid_newstream(self, sending) ==
    sending /\ self.last_frame = "Init"

is_valid_pubsub_nosignal(self, sending) ==
    /\ (is_publisher(self) /\ sending) \/ (is_subscriber(self) /\ ~sending)
    /\ self.last_frame \in {"NewStream", "Message", "Batch"}

\* a pub/sub check that forgets the role
is_valid_pubsub_norole(self, sending) ==
    self.last_frame \in {"NewStream", "Message", "Batch", "Signal"}

is_valid_pubsub(self, sending) ==
    /\ (is_publisher(self) /\ sending) \/ (is_subscriber(self) /\ ~sending)
    /\ self.last_frame \in {"NewStream", "Message", "Batch", "Signal"}

is_valid_reply_noreply(self, sending) ==
    /\ is_requestor(self)
    /\ ~sending
    /\ self.last_frame \in {"Request", "Signal"}

is_valid_reply(self, sending) ==
    /\ is_requestor(self)
    /\ ~sending
    /\ self.last_frame \in {"Request", "Reply", "Signal"}

is_valid_request(self, sending) ==
    /\ is_requestor(self)
    /\ sending
    /\ self.last_frame \in {"NewStream", "Request", "Reply", "Signal"}

is_valid_server_reply_nosignal(self, sending) ==
    /\ is_replier(self)
    /\ sending
    /\ self.last_frame \in {"ServerRequest", "ServerReply"}

is_valid_server_reply(self, sending) ==
    /\ is_replier(self)
    /\ sending
    /\ self.last_frame \in {"ServerRequest", "ServerReply", "Signal"}

is_valid_server_request_noreply(self, sending) ==
    /\ is_replier(self)
    /\ ~sending
    /\ self.last_frame \in {"NewStream", "ServerRequest", "Signal"}

is_valid_server_request(self, sending) ==
    /\ is_replier(self)
    /\ ~sending
    /\ self.last_frame \in {"NewStream", "ServerRequest", "ServerReply", "Signal"}

is_valid_signal_any(self, sending) == TRUE

\* the arm `Frame::Signal(_) if !sending`
is_valid_signal(self, sending) == ~sending

\* the guard of the match arm of state() that `item` selects; FALSE is the `_` arm
accepts(self, item, sending) ==
    CASE item.ty \in {"Batch", "Message"} -> is_valid_pubsub(self, sending)
      [] item.ty = "NewStream"     -> is_valid_newstream(self, sending)
      [] item.ty = "Reply"         -> is_valid_reply(self, sending)
      [] item.ty = "Request"       -> is_valid_request(self, sending)
      [] item.ty = "ServerReply"   -> is_valid_server_reply(self, sending)
      [] item.ty = "ServerRequest" -> is_valid_server_request(self, sending)
      [] item.ty = "Signal"        -> is_valid_signal(self, sending)
      [] OTHER                     -> FALSE

FrameOutOfOrder(ty, last) == <<"FrameOutOfOrder", ty, last>>

Ok == <<"Ok">>

\* a state() that records the frame before it has checked it
state_record_first(self, item, sending) ==
    IF accepts(self, item, sending)
    THEN [res   |-> Ok,
          codec |-> IF item.ty = "NewStream"
                    THEN [self EXCEPT !.stream_type = item.role,
                                      !.path = item.path,
                                      !.last_frame = item.ty]
                    ELSE [self EXCEPT !.last_frame = item.ty]]
    ELSE [res   |-> FrameOutOfOrder(item.ty, self.last_frame),
          codec |-> [self EXCEPT !.last_frame = item.ty]]

\* Codec::state: the result and the codec afterwards
state(self, item, sending) ==
    IF accepts(self, item, sending)
    THEN [res   |-> Ok,
          codec |-> IF item.ty = "NewStream"
                    THEN [self EXCEPT !.stream_type = item.role,
                                      !.path = item.path,
                                      !.last_frame = item.ty]
                    ELSE [self EXCEPT !.last_frame = item.ty]]
    ELSE [res   |-> FrameOutOfOrder(item.ty, self.last_frame),
          codec |-> self]


-----------------------------------------------------------------------------
(* The bytes of a frame: bincode::config::standard(), i.e. little-endian   *)
(* with variable-length integers, over the layout `kind || body` of the    *)
(* wire protocol                                                            *)

\* the discriminant of each frame kind
KindIndex ==
    [t \in FrameTypes \ {"Init"} |->
        CASE t = "NewStream" -> 0 [] t = "Message" -> 1 [] t = "Batch" -> 2
          [] t = "Request" -> 3 [] t = "Reply" -> 4 [] t = "ServerRequest" -> 5
          [] t = "ServerReply" -> 6 [] t = "Signal" -> 7]

RoleIndex ==
    [r \in StreamTypes |->
        CASE r = "Publisher" -> 0 [] r = "Subscriber" -> 1
          [] r = "Requestor" -> 2 [] r = "Replier" -> 3]

AllSignals == <<"CloudAuthFailed", "InvalidTopicName", "ReplierAlreadyBound",
                "Shutdown", "ShutdownInProgress", "StreamClosedPrematurely",
                "UnknownError">>

SignalIndex(k) == (CHOOSE i \in 1..Len(AllSignals) : AllSignals[i] = k) - 1

\* a topic path of more than MAX_FRAME_SIZE bytes
LongPath == "/long"

\* the UTF-8 bytes of a path
PathBytes(p) ==
    CASE p = "/moo/cow"     -> <<47, 109, 111, 111, 47, 99, 111, 119>>
      [] p = "/acme/stocks" -> <<47, 97, 99, 109, 101, 47, 115, 116, 111, 99, 107, 115>>
      [] p = ""             -> <<>>
      [] p = LongPath       -> [i \in 1..(MAX_FRAME_SIZE + 1) |-> 47]

\* the path a byte string spells; "?" stands for every path outside Paths
PathOf(bytes) ==
    IF \E p \in Paths \cup {""} : PathBytes(p) = bytes
    THEN CHOOSE p \in Paths \cup {""} : PathBytes(p) = bytes
    ELSE "?"

\* the bytes of a payload
BodyBytes(b) == [i \in 1..b.len |-> b.fill]

\* the payload a byte string holds
MkBody(bytes) ==
    IF bytes = <<>> THEN Body(0, 0)
    ELSE IF \A i \in 1..Len(bytes) : bytes[i] = bytes[1]
         THEN Body(Len(bytes), bytes[1])
         ELSE [len |-> Len(bytes), raw |-> bytes]

\* bincode's variable-length integer: one byte below 251, else a marker byte
\* and 2 or 4 little-endian bytes
varint(u) ==
    IF u < 251 THEN <<u>>
    ELSE IF u < 65536 THEN <<251, u % 256, u \div 256>>
    ELSE <<252, u % 256, (u \div 256) % 256, (u \div 65536) % 256, u \div 16777216>>

varint_len(u) == IF u < 251 THEN 1 ELSE IF u < 65536 THEN 3 ELSE 5

\* the fields of a frame before its payload, in the order they are written
HeadFields(item) ==
    <<varint(KindIndex[item.ty])>> \o
    CASE item.ty = "NewStream" ->
            <<varint(RoleIndex[item.role]), varint(Len(PathBytes(item.path))),
              PathBytes(item.path)>>
      [] item.ty \in {"Message", "Batch"} -> <<>>
      [] item.ty \in {"Request", "Reply"} -> <<varint(item.rid)>>
      [] item.ty \in {"ServerRequest", "ServerReply"} ->
            <<varint(item.cid), varint(item.rid)>>
      [] item.ty = "Signal" -> <<varint(SignalIndex(item.kind))>>

HasBody(item) == item.ty \notin {"NewStream", "Signal"}

RECURSIVE TotalLen(_)
TotalLen(fields) ==
    IF fields = <<>> THEN 0 ELSE Len(Head(fields)) + TotalLen(Tail(fields))

\* the number of bytes of a path
PathLen(p) == IF p = LongPath THEN MAX_FRAME_SIZE + 1 ELSE Len(PathBytes(p))

\* Frame::size: the number of bytes of the framed record
size(item) ==
    IF item.ty = "NewStream"
    THEN varint_len(KindIndex[item.ty]) + varint_len(RoleIndex[item.role])
            + varint_len(PathLen(item.path)) + PathLen(item.path)
    ELSE TotalLen(HeadFields(item))
            + (IF HasBody(item) THEN varint_len(item.body.len) + item.body.len ELSE 0)

\* every field of a frame, in the order bincode writes them
Fields(item) ==
    HeadFields(item) \o
    (IF HasBody(item) THEN <<varint(item.body.len), BodyBytes(item.body)>> ELSE <<>>)

FrameTooLarge(sz, max) == <<"FrameTooLarge", sz, max>>

EncodeUnexpectedEnd == <<"Encode", "UnexpectedEnd">>

\* slice with the bytes of field written at pos
Overwrite(slice, pos, field) ==
    [i \in 1..Len(slice) |->
        IF i >= pos /\ i < pos + Len(field) THEN field[i - pos + 1] ELSE slice[i]]

\* bincode's SliceWriter: each field is copied into what is left of the slice,
\* and the first field that does not fit ends the encoding with UnexpectedEnd
RECURSIVE write(_, _, _)
write(fields, slice, pos) ==
    IF fields = <<>> THEN [res |-> Ok, slice |-> slice]
    ELSE IF pos - 1 + Len(Head(fields)) > Len(slice)
         THEN [res |-> EncodeUnexpectedEnd, slice |-> slice]
         ELSE write(Tail(fields), Overwrite(slice, pos, Head(fields)),
                    pos + Len(Head(fields)))

\* bincode::encode_into_slice(&item, dst, conf): dst derefs to the slice of the
\* bytes the BytesMut already holds; its length is not changed
encode_into_slice(item, slice) == write(Fields(item), slice, 1)

\* an encode() that checks the size before the sequence
encode_size_first(self, item, buf) ==
    IF size(item) > self.max_frame_size
    THEN [res |-> FrameTooLarge(size(item), self.max_frame_size),
          codec |-> self, dst |-> buf]
    ELSE LET st == state(self, item, SENDING) IN
         IF st.res # Ok THEN [res |-> st.res, codec |-> st.codec, dst |-> buf]
         ELSE LET w == encode_into_slice(item, buf) IN
              [res |-> w.res, codec |-> st.codec, dst |-> w.slice]

\* Encoder::encode
encode(self, item, buf) ==
    LET st == state(self, item, SENDING) IN
    IF st.res # Ok THEN [res |-> st.res, codec |-> st.codec, dst |-> buf]
    ELSE IF size(item) > self.max_frame_size
         THEN [res |-> FrameTooLarge(size(item), self.max_frame_size),
               codec |-> st.codec, dst |-> buf]
         ELSE LET w == encode_into_slice(item, buf) IN
              [res |-> w.res, codec |-> st.codec, dst |-> w.slice]

-----------------------------------------------------------------------------
(* SpecCodec: one codec, driven as the unit tests' check_state drives it   *)

\* nothing accepted yet
NoHist == [opened |-> None, path |-> None, reqSent |-> FALSE, sreqRecv |-> FALSE]

\* no call of state() yet
NoCall == [item |-> [ty |-> "Init"], sending |-> FALSE, res |-> <<"none">>,
           pre |-> Default, before |-> NoHist]

\* the history after state() accepted `item` in direction `sending`
Record(h, item, sending) ==
    [opened   |-> IF item.ty = "NewStream" THEN item.role ELSE h.opened,
     path     |-> IF item.ty = "NewStream" THEN item.path ELSE h.path,
     reqSent  |-> h.reqSent \/ (item.ty = "Request" /\ sending),
     sreqRecv |-> h.sreqRecv \/ (item.ty = "ServerRequest" /\ ~sending)]

\* no call of encode() yet
NoEnc == [item |-> [ty |-> "Init"], res |-> <<"none">>, emitted |-> 0,
          pre |-> Default]

\* no call of decode() on the bytes dst holds now
NoDec == [res |-> <<"none">>]

\* no call of find() on the bytes mmap holds now
NoFind == [pred |-> <<"none", 0>>, res |-> <<"none">>]

\* the sinks registered with the topic; each is served by a task of its own
\* that shares nothing with the others but the log, which it only reads
SubIds == {1}

\* Topic::pair: no publisher stream, stream ids from 0, run() spawned; select:
\* the branches the current select! of run() still awaits
NewTopic ==
    [publishers |-> {}, next_stream_id |-> 0, status |-> "running", select |-> "both"]

\* a sink that has not registered
NoSubscriber == [st |-> "none", req |-> <<"none", 0>>, seen |-> 0, start |-> 0,
                 offset |-> 0, sink |-> <<>>, gone |-> FALSE, read_failed |-> FALSE]

\* Subscribers::new: a fresh token, run() spawned
NewSubscribers == [token |-> FALSE, status |-> "running"]

\* no frame has arrived on a publisher stream
NoStep == [ty |-> "Init", res |-> "none"]

\* no topic has been created
TopicIdle ==
    /\ log = <<>>
    /\ published = <<>>
    /\ topic = NewTopic
    /\ handle = "open"
    /\ notify = <<>>
    /\ subscribers = [s \in SubIds |-> NoSubscriber]
    /\ supervisor = NewSubscribers
    /\ step = NoStep

\* no client Subscriber is open
ClientIdle ==
    /\ stream = <<>>
    /\ message_batch = <<"None">>
    /\ yielded = <<>>
    /\ arrived = <<>>

\* CleanerTask::start has not been called
NoCleaner == [owner |-> FALSE, task |-> "none", token |-> FALSE, late |-> FALSE]

\* the cleaner has made no pass
NoPass == [before |-> <<>>, after |-> <<>>, at |-> 0, res |-> "none"]

\* no log is open
CleanerIdle ==
    /\ segments = <<>>
    /\ now = 0
    /\ cleaner = NoCleaner
    /\ pass = NoPass

\* the topic names headers carry; the last lies in the reserved namespace
TopicNames == {"/acme/stocks", "/moo/cow", "/selium/proxy"}

\* the handle_stream tasks
Handlers == {1, 2}

\* a mutex nobody holds
Free == <<"free">>

\* no Sender under a name
NoSender == [kind |-> None, channel |-> None, queue |-> 0]

\* a handle_stream task that has not been spawned
NoHandler == [pc |-> "none", frame |-> [ty |-> "Init"], reply |-> None]

\* Server::try_from: an empty registry, no topic task, a fresh endpoint
ServerIdle ==
    /\ endpoint = [rejecting |-> FALSE, closed |-> None]
    /\ server = [pc |-> "listen", conns |-> 0]
    /\ topics = [n \in TopicNames |-> NoSender]
    /\ topic_handles = <<>>
    /\ locks = [topics |-> Free, topic_handles |-> Free]
    /\ handlers = [h \in Handlers |-> NoHandler]

\* no KeepAlive has been built
NoKeepAlive ==
    [stream |-> "none", backoff_strategy |-> [max_attempts |-> 0],
     op |-> "none", pc |-> "idle", attempts |-> [current |-> 0, max_attempts |-> 0],
     calls |-> 0, sleeps |-> 0, ops |-> 0, outcome |-> <<"None">>,
     result |-> <<"None">>, reconnected |-> FALSE, served |-> 0,
     req |-> 0, sent |-> <<>>]

\* no client stream is being opened
NoLink ==
    [kind |-> "none", headers |-> [topic |-> "none"], original |-> [topic |-> "none"],
     pc |-> "none", conn |-> 0, locked |-> FALSE, attempts |-> 0, channels |-> 0,
     stream |-> <<"None">>, fresh |-> <<"None">>]

\* no request/reply topic has been created
NoReqRep ==
    [queue |-> <<>>, server |-> <<"None">>, chan |-> <<>>, buffered |-> 0,
     next_client_id |-> 0, requests |-> 0]

\* no Publisher has been spawned
NoPublisher ==
    [st |-> "none", compression |-> FALSE, batch |-> <<>>,
     stream |-> [id |-> 0, frames |-> <<>>], accepted |-> <<>>, handed |-> <<>>,
     res |-> <<"None">>]

\* no client session and no request/reply topic
SessionIdle ==
    /\ keep = NoKeepAlive
    /\ link = NoLink
    /\ reqrep = NoReqRep
    /\ publisher = NoPublisher

BrokerIdle ==
    /\ TopicIdle
    /\ ClientIdle
    /\ CleanerIdle
    /\ ServerIdle
    /\ SessionIdle

\* no index file is mapped
IndexIdle ==
    /\ mmap = <<>>
    /\ entries = <<>>
    /\ found = NoFind

\* no buffer is in use
WireIdle ==
    /\ rx = Default
    /\ dst = <<>>
    /\ enc = NoEnc
    /\ dec = NoDec

\* no codec has been driven
CodecIdle ==
    /\ codec = Default
    /\ call = NoCall
    /\ hist = NoHist

InitCodec ==
    /\ codec = Default
    /\ call = NoCall
    /\ hist = NoHist
    /\ WireIdle
    /\ IndexIdle
    /\ BrokerIdle

\* codec.state(&item, sending)
StateCall(item, sending) ==
    LET r == state(codec, item, sending) IN
    /\ codec' = r.codec
    /\ call' = [item |-> item, sending |-> sending, res |-> r.res,
                pre |-> codec, before |-> hist]
    /\ hist' = IF r.res = Ok THEN Record(hist, item, sending) ELSE hist
    /\ UNCHANGED <<wireVars, indexVars, brokerVars>>

NextCodec == \E item \in Frames, sending \in BOOLEAN : StateCall(item, sending)

SpecCodec == InitCodec /\ [][NextCodec]_vars

End == [st |-> "end"]

Bad == [st |-> "err"]

\* reads a variable-length integer at pos
rd_varint(buf, pos) ==
    IF pos > Len(buf) THEN End
    ELSE IF buf[pos] < 251 THEN [st |-> "ok", val |-> buf[pos], next |-> pos + 1]
    ELSE IF buf[pos] = 251
         THEN IF pos + 2 > Len(buf) THEN End
              ELSE [st |-> "ok", val |-> buf[pos + 1] + 256 * buf[pos + 2],
                    next |-> pos + 3]
    ELSE IF buf[pos] = 252
         THEN IF pos + 4 > Len(buf) THEN End
              ELSE [st |-> "ok",
                    val |-> buf[pos + 1] + 256 * buf[pos + 2] + 65536 * buf[pos + 3]
                              + 16777216 * buf[pos + 4],
                    next |-> pos + 5]
    ELSE Bad

\* reads a length-prefixed byte string at pos
rd_bytes(buf, pos) ==
    LET n == rd_varint(buf, pos) IN
    IF n.st # "ok" THEN n
    ELSE IF n.next + n.val - 1 > Len(buf) THEN End
    ELSE [st |-> "ok", val |-> SubSeq(buf, n.next, n.next + n.val - 1),
          next |-> n.next + n.val]

KindAt(i) == CHOOSE t \in FrameTypes \ {"Init"} : KindIndex[t] = i

RoleAt(i) == CHOOSE r \in StreamTypes : RoleIndex[r] = i

\* reads (request id, payload) at pos
rd_reqrep(ty, buf, pos) ==
    LET i == rd_varint(buf, pos) IN
    IF i.st # "ok" THEN [st |-> i.st]
    ELSE LET b == rd_bytes(buf, i.next) IN
         IF b.st # "ok" THEN [st |-> b.st]
         ELSE [st |-> "ok",
               frame |-> [ty |-> ty, rid |-> i.val, body |-> MkBody(b.val)]]

\* reads (client id, request id, payload) at pos
rd_server(ty, buf, pos) ==
    LET c == rd_varint(buf, pos) IN
    IF c.st # "ok" THEN [st |-> c.st]
    ELSE LET r == rd_reqrep(ty, buf, c.next) IN
         IF r.st # "ok" THEN r
         ELSE [st |-> "ok",
               frame |-> [ty |-> ty, cid |-> c.val, rid |-> r.frame.rid,
                          body |-> r.frame.body]]

\* bincode::decode_from_slice(buf, conf): the frame at the start of buf, "end"
\* when buf is too short for it (DecodeError::UnexpectedEnd), "err" otherwise
decode_from_slice(buf) ==
    LET k == rd_varint(buf, 1) IN
    IF k.st # "ok" THEN [st |-> k.st]
    ELSE IF k.val > 7 THEN Bad
    ELSE CASE KindAt(k.val) = "NewStream" ->
                LET r == rd_varint(buf, k.next) IN
                IF r.st # "ok" THEN [st |-> r.st]
                ELSE IF r.val > 3 THEN Bad
                ELSE LET p == rd_bytes(buf, r.next) IN
                     IF p.st # "ok" THEN [st |-> p.st]
                     ELSE [st |-> "ok",
                           frame |-> NewStream(RoleAt(r.val), PathOf(p.val))]
           [] KindAt(k.val) \in {"Message", "Batch"} ->
                LET b == rd_bytes(buf, k.next) IN
                IF b.st # "ok" THEN [st |-> b.st]
                ELSE [st |-> "ok",
                      frame |-> [ty |-> KindAt(k.val), body |-> MkBody(b.val)]]
           [] KindAt(k.val) \in {"Request", "Reply"} ->
                rd_reqrep(KindAt(k.val), buf, k.next)
           [] KindAt(k.val) \in {"ServerRequest", "ServerReply"} ->
                rd_server(KindAt(k.val), buf, k.next)
           [] KindAt(k.val) = "Signal" ->
                LET g == rd_varint(buf, k.next) IN
                IF g.st # "ok" THEN [st |-> g.st]
                ELSE IF g.val >= Len(AllSignals) THEN Bad
                ELSE [st |-> "ok", frame |-> Signal(AllSignals[g.val + 1])]

DecodeError == <<"Decode">>

Some(frame) == <<"Some", frame>>

NoFrame == <<"None">>

\* Decoder::decode
decode(self, buf) ==
    LET d == decode_from_slice(buf) IN
    IF d.st = "end" THEN [res |-> NoFrame, codec |-> self]
    ELSE IF d.st = "err" THEN [res |-> DecodeError, codec |-> self]
    ELSE LET st == state(self, d.frame, RECEIVING) IN
         IF st.res # Ok THEN [res |-> st.res, codec |-> st.codec]
         ELSE [res |-> Some(d.frame), codec |-> st.codec]

-----------------------------------------------------------------------------
(* SpecWire: codec encodes into dst, the peer's codec rx decodes from it   *)

\* longest buffer handed to encode
MaxDst == 16

Zeroes(n) == [i \in 1..n |-> 0]

InitWire ==
    /\ codec = Default
    /\ call = NoCall
    /\ hist = NoHist
    /\ rx = Default
    /\ dst \in {Zeroes(0), Zeroes(MaxDst)}
    /\ enc = NoEnc
    /\ dec = NoDec
    /\ IndexIdle
    /\ BrokerIdle

\* codec.encode(item, &mut dst)
Encode(item) ==
    LET r == encode(codec, item, dst) IN
    /\ codec' = r.codec
    /\ dst' = r.dst
    /\ enc' = [item |-> item, res |-> r.res, emitted |-> Len(r.dst) - Len(dst),
               pre |-> codec]
    /\ dec' = NoDec
    /\ UNCHANGED <<call, hist, rx, indexVars, brokerVars>>

\* rx.decode(&mut dst)
Decode ==
    LET r == decode(rx, dst) IN
    /\ rx' = r.codec
    /\ dec' = [res |-> r.res]
    /\ UNCHANGED <<codec, call, hist, dst, enc, indexVars, brokerVars>>

NextWire ==
    \/ \E item \in Frames : Encode(item)
    \/ \E ty \in StreamTypes : Encode(NewStream(ty, LongPath))
    \/ Decode

SpecWire == InitWire /\ [][NextWire]_vars

-----------------------------------------------------------------------------
(* The memory-mapped index of a segment                                    *)

\* the bytes of one index entry
SIZE_OF_INDEX_ENTRY == 16

\* IndexEntry: relative offset (u32), position in the data file (u32),
\* timestamp (u64)
IndexEntry(relative_offset, file_position, timestamp) ==
    [relative_offset |-> relative_offset, file_position |-> file_position,
     timestamp |-> timestamp]

\* the big-endian bytes of v, as BufMut::put_u32 / put_u64 write them
RECURSIVE be_bytes(_, _)
be_bytes(v, width) ==
    IF width = 0 THEN <<>> ELSE be_bytes(v \div 256, width - 1) \o <<v % 256>>

\* the integer a big-endian byte string holds
RECURSIVE be_value(_)
be_value(bytes) ==
    IF bytes = <<>> THEN 0
    ELSE be_value(SubSeq(bytes, 1, Len(bytes) - 1)) * 256 + bytes[Len(bytes)]

\* Buf::get_u32 on a slice: its first four bytes, big-endian
get_u32(slice) == be_value(SubSeq(slice, 1, 4))

\* IndexEntry::into_slice
into_slice(entry) ==
    be_bytes(entry.relative_offset, 4) \o be_bytes(entry.file_position, 4)
        \o be_bytes(entry.timestamp, 8)

\* IndexEntry::from_slice
from_slice(slice) ==
    IndexEntry(be_value(SubSeq(slice, 1, 4)), be_value(SubSeq(slice, 5, 8)),
               be_value(SubSeq(slice, 9, 16)))

\* Mmap::get_entry_slice, offset counted from 0
get_entry_slice(m, offset) == SubSeq(m, offset + 1, offset + SIZE_OF_INDEX_ENTRY)

\* Mmap::get_offset_range
get_offset_range(m) == 0..(Len(m) \div SIZE_OF_INDEX_ENTRY - 1)

\* Mmap::get_last_offset
get_last_offset(m) == get_u32(SubSeq(m, Len(m) - SIZE_OF_INDEX_ENTRY + 1, Len(m)))

Min(S) == CHOOSE x \in S : \A y \in S : x <= y

\* the slots of get_offset_range whose first four bytes are zero
ZeroSlots(m) ==
    {i \in get_offset_range(m) :
        get_u32(get_entry_slice(m, i * SIZE_OF_INDEX_ENTRY)) = 0}

get_current_offset_onebased(m) ==
    IF get_last_offset(m) # 0 THEN get_last_offset(m)
    ELSE IF ZeroSlots(m) # {} THEN Min(ZeroSlots(m)) + 1
    ELSE 1

\* Mmap::get_current_offset
get_current_offset(m) ==
    IF get_last_offset(m) # 0 THEN get_last_offset(m)
    ELSE IF ZeroSlots(m) # {} THEN Min(ZeroSlots(m))
    ELSE 1

\* Mmap::push: the entry's bytes spliced into slot relative_offset - 1
push(m, entry) ==
    LET slice_start == (entry.relative_offset - 1) * SIZE_OF_INDEX_ENTRY
        bytes == into_slice(entry) IN
    [i \in 1..Len(m) |->
        IF i > slice_start /\ i <= slice_start + SIZE_OF_INDEX_ENTRY
        THEN bytes[i - slice_start] ELSE m[i]]

\* the search predicates find is called with
Holds(pred, entry) ==
    CASE pred[1] = "relative_offset ==" -> entry.relative_offset = pred[2]
      [] pred[1] = "timestamp >="       -> entry.timestamp >= pred[2]
      [] pred[1] = "timestamp <="       -> entry.timestamp <= pred[2]

\* the slots of get_offset_range whose entry the predicate holds of
Matching(m, pred) ==
    {i \in get_offset_range(m) :
        Holds(pred, from_slice(get_entry_slice(m, i * SIZE_OF_INDEX_ENTRY)))}

\* Mmap::find: the entry of the first slot of get_offset_range the predicate
\* holds of
find(m, pred) ==
    IF Matching(m, pred) = {} THEN <<"None">>
    ELSE <<"Some", from_slice(get_entry_slice(m, Min(Matching(m, pred)) * SIZE_OF_INDEX_ENTRY))>>

-----------------------------------------------------------------------------
(* SpecIndex: an index file is created and entries are pushed in order     *)

\* largest max_index_entries
MaxEntries == 3

\* latest timestamp of an entry
MaxTime == 2

\* positions in the data file that entries point at
Positions == {0, 24}

Preds ==
    {<<"relative_offset ==", v>> : v \in 1..MaxEntries}
        \cup {<<"timestamp >=", t>> : t \in 1..MaxTime}
        \cup {<<"timestamp <=", t>> : t \in 1..MaxTime}

\* Mmap::create: max_index_entries * SIZE_OF_INDEX_ENTRY zeroed bytes
InitIndex ==
    /\ mmap \in {Zeroes(c * SIZE_OF_INDEX_ENTRY) : c \in 1..MaxEntries}
    /\ entries = <<>>
    /\ found = NoFind
    /\ CodecIdle
    /\ WireIdle
    /\ BrokerIdle

\* mmap.push(entry), relative offsets in order and within the capacity
Push(entry) ==
    /\ entry.relative_offset = Len(entries) + 1
    /\ entry.relative_offset * SIZE_OF_INDEX_ENTRY <= Len(mmap)
    /\ mmap' = push(mmap, entry)
    /\ entries' = Append(entries, entry)
    /\ found' = NoFind
    /\ UNCHANGED <<codecVars, wireVars, brokerVars>>

\* mmap.find(pred)
Find(pred) ==
    /\ found' = [pred |-> pred, res |-> find(mmap, pred)]
    /\ UNCHANGED <<mmap, entries, codecVars, wireVars, brokerVars>>

NextIndex ==
    \/ \E r \in 1..MaxEntries, p \in Positions, t \in 1..MaxTime :
            Push(IndexEntry(r, p, t))
    \/ \E pred \in Preds : Find(pred)

SpecIndex == InitIndex /\ [][NextIndex]_vars

-----------------------------------------------------------------------------
(* Claims about Codec::state, checked under SpecCodec                      *)

Called == call.res # <<"none">>

Accepted == Called /\ call.res = Ok

Rejected == Called /\ call.res = FrameOutOfOrder(call.item.ty, call.pre.last_frame)

\* C1: on a codec that has accepted no frame (last_frame = Init, stream_type
\* none) a sent NewStream(role, path) is accepted and sets stream_type = role
\* and path = the given path; every other frame kind sent there is rejected
\* with FrameOutOfOrder.
C1_FreshCodecSendsOnlyNewStream ==
    (Called /\ call.sending /\ call.pre.last_frame = "Init"
            /\ call.pre.stream_type = None)
        => IF call.item.ty = "NewStream"
           THEN /\ Accepted
                /\ codec.stream_type = call.item.role
                /\ codec.path = call.item.path
           ELSE Rejected

C1_Witness ==
    /\ Accepted /\ call.sending /\ call.pre = Default
    /\ call.item = NewStream("Publisher", "/moo/cow")
    /\ codec.stream_type = "Publisher" /\ codec.path = "/moo/cow"

\* C2: NewStream is accepted at most once per codec and never when received:
\* a sent NewStream after any accepted frame is rejected with FrameOutOfOrder,
\* and a received NewStream is rejected in every state, Init included.
C2_NewStreamOnceAndNeverReceived ==
    (Called /\ call.item.ty = "NewStream")
        => /\ ~call.sending => Rejected
           /\ (call.sending /\ call.pre.last_frame # "Init") => Rejected
           /\ Accepted => call.before.opened = None

C2_Witness ==
    /\ Rejected /\ call.sending /\ call.item.ty = "NewStream"
    /\ call.before.opened # None

\* C3: after NewStream(role, path) was sent, a Message or Batch is accepted
\* exactly when (role = Publisher and it is sent) or (role = Subscriber and it
\* is received), whatever Signals were received in between; otherwise it is
\* rejected with FrameOutOfOrder.
C3_PubSubDirection ==
    (Called /\ call.before.opened # None /\ call.item.ty \in {"Message", "Batch"})
        => /\ Accepted <=>
                \/ call.before.opened = "Publisher" /\ call.sending
                \/ call.before.opened = "Subscriber" /\ ~call.sending
           /\ Accepted \/ Rejected

C3_Witness ==
    /\ Accepted /\ call.sending /\ call.item.ty = "Batch"
    /\ call.before.opened = "Publisher" /\ call.pre.last_frame = "Signal"

\* C4: on a codec that sent NewStream(Requestor), every sent Request is
\* accepted (also right after another Request); once a Request was sent every
\* received Reply is accepted, in any interleaving with sent Requests and
\* received Signals; a received Request and a received ServerReply are
\* rejected with FrameOutOfOrder.
C4_RequestorPipelining ==
    (Called /\ call.before.opened = "Requestor")
        => /\ (call.item.ty = "Request" /\ call.sending) => Accepted
           /\ (call.item.ty = "Reply" /\ ~call.sending /\ call.before.reqSent)
                 => Accepted
           /\ (call.item.ty \in {"Request", "ServerReply"} /\ ~call.sending)
                 => Rejected

C4_Witness ==
    /\ Accepted /\ ~call.sending /\ call.item.ty = "Reply"
    /\ call.before.opened = "Requestor" /\ call.pre.last_frame = "Reply"

C6_NoReplyBeforeRequest ==
    /\ (Accepted /\ call.item.ty = "ServerReply" /\ call.sending)
          => call.before.sreqRecv
    /\ (Accepted /\ call.item.ty = "Reply" /\ ~call.sending)
          => call.before.reqSent

\* C7: in every codec state and for every role a received Signal is accepted
\* and a sent Signal is rejected with FrameOutOfOrder.
C7_SignalOnlyReceived ==
    (Called /\ call.item.ty = "Signal")
        => IF call.sending THEN Rejected ELSE Accepted

C7_Witness ==
    /\ Rejected /\ call.sending /\ call.item.ty = "Signal"
    /\ call.pre.stream_type = "Subscriber"

-----------------------------------------------------------------------------
(* Claims about Encoder::encode and Decoder::decode, checked under SpecWire *)

Encoded == enc.res # <<"none">>

Decoded == dec.res # <<"none">>

\* C8: codec round-trip: a frame that encode takes (legal in the sending
\* sequence and not oversize) is encoded, and decoding the bytes that encode
\* produced yields that same frame; encode emits at most MAX_FRAME_SIZE bytes
\* or fails with FrameTooLarge.
C8_RoundTrip ==
    /\ (Encoded /\ accepts(enc.pre, enc.item, SENDING)
                /\ size(enc.item) <= MAX_FRAME_SIZE) => enc.res = Ok
    /\ (Decoded /\ enc.res = Ok) => dec.res = Some(enc.item)
    /\ Encoded => (enc.emitted <= MAX_FRAME_SIZE \/ enc.res[1] = "FrameTooLarge")

-----------------------------------------------------------------------------
(* Claims about Mmap, checked under SpecIndex                              *)

Capacity == Len(mmap) \div SIZE_OF_INDEX_ENTRY

Searched == found.res # <<"none">>

\* the populated slots (counted from 0) whose pushed entry the predicate holds of
PopulatedMatches(pred) == {i \in 0..(Len(entries) - 1) : Holds(pred, entries[i + 1])}

\* C10: find(pred) returns the populated entry in the lowest slot for which the
\* predicate holds, never an entry read from a zeroed slot, and None when no
\* populated entry satisfies the predicate.
C10_FindFirstPopulated ==
    Searched =>
        IF PopulatedMatches(found.pred) = {} THEN found.res = <<"None">>
        ELSE found.res = <<"Some", entries[Min(PopulatedMatches(found.pred)) + 1]>>

-----------------------------------------------------------------------------
(* The pub/sub topic actor: server/src/topic/pubsub.rs, fed by the frames  *)
(* of client/src/streams/pubsub/publisher.rs                               *)

FromBeginning(o) == <<"FromBeginning", o>>

FromEnd(o) == <<"FromEnd", o>>

\* u64::checked_sub
checked_sub(a, b) == IF b <= a THEN <<"Some", a - b>> ELSE <<"None">>

\* Option::unwrap_or
unwrap_or(opt, default) == IF opt[1] = "Some" THEN opt[2] ELSE default

\* Topic::run, Socket::Sink arm: the log offset a new subscriber starts at
log_offset(offset, n_entries) ==
    IF offset[1] = "FromBeginning" THEN offset[2]
    ELSE unwrap_or(checked_sub(n_entries, offset[2]), n_entries)

\* Frame::Message(MessagePayload { headers: None, message })
MessagePayload(message) == [ty |-> "Message", message |-> message]

\* Frame::BatchMessage(BatchPayload { size, message })
BatchPayload(sz, message) == [ty |-> "BatchMessage", size |-> sz, message |-> message]

\* selium_protocol::utils::encode_message_batch: the number of messages, then
\* each message behind its length
RECURSIVE encode_messages(_)
encode_messages(messages) ==
    IF messages = <<>> THEN <<>>
    ELSE <<Len(Head(messages))>> \o Head(messages) \o encode_messages(Tail(messages))

encode_message_batch(messages) == <<Len(messages)>> \o encode_messages(messages)

\* Publisher::send_single, no compression configured
send_single(bytes) == MessagePayload(bytes)

\* Publisher::send_batch on the drained batch, no compression configured
send_batch(messages) == BatchPayload(Len(messages), encode_message_batch(messages))

\* Frame::batch_size
batch_size(frame) ==
    IF frame.ty = "Message" THEN Some(1)
    ELSE IF frame.ty = "BatchMessage" THEN Some(frame.size)
    ELSE <<"None">>

\* Frame::message
message(frame) ==
    IF frame.ty \in {"Message", "BatchMessage"} THEN Some(frame.message)
    ELSE <<"None">>

\* Option::unwrap
unwrap(opt) == opt[2]

\* selium_log::message::Message::batch
batch(records, bsize, version) ==
    [records |-> records, batch_size |-> bsize, version |-> version]

\* MessageLog::number_of_entries
number_of_entries(l) == Len(l)

\* MessageLog::write
log_write(l, m) == Append(l, m)

\* max_index_entries of the topic's log: the entries one segment holds
MaxIndexEntries == 2

\* MessageLog::read_slice(offset, None): the messages from offset to the end
\* of the segment that holds it, and the offset after them
read_slice(l, offset) ==
    LET segment_end == (offset \div MaxIndexEntries + 1) * MaxIndexEntries
        end_offset  == Min({Len(l), segment_end})
    IN  IF offset < Len(l)
        THEN [messages |-> Some(SubSeq(l, offset + 1, end_offset)),
              end_offset |-> end_offset]
        ELSE [messages |-> <<"None">>, end_offset |-> offset]

\* Subscriber::read_messages: one frame to the sink for each message of the slice
read_messages(sink, slice) ==
    sink \o [i \in 1..Len(slice) |->
                IF slice[i].batch_size > 1
                THEN BatchPayload(slice[i].batch_size, slice[i].records)
                ELSE MessagePayload(slice[i].records)]

\* Subscriber::poll_for_messages that leaves the cursor where it was
poll_for_messages_stale(self, l) ==
    LET slice == read_slice(l, self.offset) IN
    [self EXCEPT !.sink = IF slice.messages # <<"None">>
                          THEN read_messages(@, unwrap(slice.messages))
                          ELSE @]

\* a poll_for_messages that gives up when the client is gone
poll_for_messages_stop(self, l) ==
    LET slice == read_slice(l, self.offset) IN
    IF self.gone THEN [self EXCEPT !.st = "done"]
    ELSE [self EXCEPT !.offset = slice.end_offset,
                      !.read_failed = FALSE,
                      !.sink = IF slice.messages # <<"None">>
                               THEN read_messages(@, unwrap(slice.messages))
                               ELSE @]

\* Subscriber::poll_for_messages when read_slice succeeds; gone: the client
\* has left and `let _ = self.sink.send(frame).await` fails for every frame
poll_for_messages(self, l) ==
    LET slice == read_slice(l, self.offset) IN
    [self EXCEPT !.offset = slice.end_offset,
                 !.read_failed = FALSE,
                 !.sink = IF slice.messages # <<"None">> /\ ~self.gone
                          THEN read_messages(@, unwrap(slice.messages))
                          ELSE @]

-----------------------------------------------------------------------------
(* SpecTopic: one pub/sub topic, its publishers, its subscribers           *)

\* most messages written to the topic's log
MaxLog == 3

\* the stream ids Topic::run hands out
StreamIds == {0}

\* the number of messages a publisher's batch holds when it is sent
BatchSizes == {1, 2}

\* the offsets subscribers ask for
Offsets == {FromBeginning(0), FromBeginning(1), FromEnd(0), FromEnd(1), FromEnd(2)}

\* the j-th message a publisher encodes for the n-th write: one byte, distinct
Msg(n, j) == <<10 * n + j>>

\* the frames a client Publisher emits for the n-th write
PublisherFrames(n) ==
    {send_single(Msg(n, 1))}
        \cup {send_batch([j \in 1..k |-> Msg(n, j)]) : k \in BatchSizes}

\* frames of other kinds
OtherFrames == {[ty |-> "Ok"], [ty |-> "RegisterPublisher"]}

notTopicVars ==
    <<codecVars, wireVars, indexVars, clientVars, cleanerVars, serverVars, sessionVars>>

InitTopic ==
    /\ TopicIdle
    /\ CodecIdle
    /\ WireIdle
    /\ IndexIdle
    /\ ClientIdle
    /\ CleanerIdle
    /\ ServerIdle
    /\ SessionIdle

\* Topic::run, `Some((_, Ok(frame))) = self.publishers.next()`; ok: log.write succeeds
PublisherFrame(id, frame, ok) ==
    /\ topic.status = "running"
    /\ topic.select = "both"
    /\ id \in topic.publishers
    /\ IF frame.ty \in {"Message", "BatchMessage"}
       THEN LET m == batch(unwrap(message(frame)), unwrap(batch_size(frame)), 1) IN
            IF ok
            THEN /\ Len(log) < MaxLog
                 /\ log' = log_write(log, m)
                 /\ published' = Append(published, frame)
                 /\ step' = [ty |-> frame.ty, res |-> "written"]
                 /\ UNCHANGED topic
            ELSE /\ topic' = [topic EXCEPT !.status = "failed"]
                 /\ step' = [ty |-> frame.ty, res |-> "error"]
                 /\ UNCHANGED <<log, published>>
       ELSE /\ step' = [ty |-> frame.ty, res |-> "ignored"]
            /\ UNCHANGED <<log, published, topic>>
    /\ UNCHANGED <<handle, notify, subscribers, supervisor, notTopicVars>>

\* a publisher's stream ends: StreamMap drops it
PublisherEnd(id) ==
    /\ topic.status = "running"
    /\ id \in topic.publishers
    /\ topic' = [topic EXCEPT !.publishers = @ \ {id}]
    /\ UNCHANGED <<log, published, handle, notify, subscribers, supervisor, step,
                   notTopicVars>>

\* Topic::run, `Some((_, Ok(frame))) = self.publishers.next()` when the item is
\* an Err: the pattern does not match, select! disables the branch and goes on
\* awaiting the other one
PublisherErr(id) ==
    /\ topic.status = "running"
    /\ topic.select = "both"
    /\ id \in topic.publishers
    /\ topic' = [topic EXCEPT !.select = "handle"]
    /\ step' = [ty |-> "Err", res |-> "disabled"]
    /\ UNCHANGED <<log, published, handle, notify, subscribers, supervisor,
                   notTopicVars>>

\* Topic::run, `Some(socket) = self.handle.next()`, Socket::Stream, with stream
\* ids handed out from ids; the loop then enters a new select!
Attach(ids) ==
    /\ topic.status = "running"
    /\ handle = "open"
    /\ topic.next_stream_id \in ids
    /\ topic' = [topic EXCEPT !.publishers = @ \cup {topic.next_stream_id},
                              !.next_stream_id = @ + 1,
                              !.select = "both"]
    /\ UNCHANGED <<log, published, handle, notify, subscribers, supervisor, step,
                   notTopicVars>>

RegisterStream == Attach(StreamIds)

\* Topic::run, `Some(socket) = self.handle.next()`, Socket::Sink(si, offset)
RegisterSink(offset) ==
    /\ topic.status = "running"
    /\ handle = "open"
    /\ \E s \in SubIds :
        /\ subscribers[s].st = "none"
        /\ \A r \in SubIds : r < s => subscribers[r].st # "none"
        /\ LET n  == number_of_entries(log)
               lo == log_offset(offset, n)
           IN  subscribers' = [subscribers EXCEPT ![s] =
                    [st |-> IF supervisor.status = "running" THEN "queued" ELSE "dropped",
                     req |-> offset, seen |-> n, start |-> lo,
                     offset |-> lo, sink |-> <<>>, gone |-> FALSE,
                     read_failed |-> FALSE]]
        /\ IF supervisor.status = "running"
           THEN /\ notify' = Append(notify, s)
                /\ topic' = [topic EXCEPT !.select = "both"]
                /\ UNCHANGED step
           ELSE /\ topic' = [topic EXCEPT !.status = "failed"]
                /\ step' = [ty |-> "Sink", res |-> "NotifySubscribers"]
                /\ UNCHANGED notify
    /\ UNCHANGED <<log, published, handle, supervisor, notTopicVars>>

\* Server::shutdown, `t.close_channel()`
CloseChannel ==
    /\ handle = "open"
    /\ handle' = "closed"
    /\ UNCHANGED <<log, published, topic, notify, subscribers, supervisor, step,
                   notTopicVars>>

\* Topic::run, select! with no `else`: both branches disabled
SelectDisabled ==
    /\ topic.status = "running"
    /\ handle = "closed"
    /\ topic.publishers = {} \/ topic.select = "handle"
    /\ topic' = [topic EXCEPT !.status = "panicked"]
    /\ UNCHANGED <<log, published, handle, notify, subscribers, supervisor, step,
                   notTopicVars>>

\* Subscribers::run, `while let Some(subscriber) = self.notify.next().await`
Spawn ==
    /\ supervisor.status = "running"
    /\ notify # <<>>
    /\ subscribers' = [subscribers EXCEPT ![Head(notify)].st = "polling"]
    /\ notify' = Tail(notify)
    /\ UNCHANGED <<log, published, topic, handle, supervisor, step, notTopicVars>>

\* Subscribers::run returns: the Topic, and with it the sender of notify, is gone
SupervisorReturn ==
    /\ supervisor.status = "running"
    /\ notify = <<>>
    /\ topic.status # "running"
    /\ supervisor' = [supervisor EXCEPT !.status = "returned"]
    /\ UNCHANGED <<log, published, topic, handle, notify, subscribers, step,
                   notTopicVars>>

\* one round of a subscriber task's loop: select! { token.cancelled(), poll_for_messages() }
Poll(s) ==
    /\ subscribers[s].st = "polling"
    /\ subscribers' = [subscribers EXCEPT ![s] =
            IF supervisor.token THEN [@ EXCEPT !.st = "done"]
            ELSE poll_for_messages(@, log)]
    /\ UNCHANGED <<log, published, topic, handle, notify, supervisor, step,
                   notTopicVars>>

NextTopic ==
    \/ \E id \in StreamIds, ok \in BOOLEAN :
         \E frame \in PublisherFrames(Len(log) + 1) \cup OtherFrames :
            PublisherFrame(id, frame, ok)
    \/ \E id \in StreamIds : PublisherEnd(id)
    \/ RegisterStream
    \/ \E offset \in Offsets : RegisterSink(offset)
    \/ CloseChannel
    \/ SelectDisabled
    \/ Spawn
    \/ SupervisorReturn
    \/ \E s \in SubIds : Poll(s)

SpecTopic == InitTopic /\ [][NextTopic]_vars

\* the scheduler runs every spawned task that can take a step
SpecTopicLive ==
    /\ SpecTopic
    /\ WF_vars(Spawn)
    /\ \A s \in SubIds : WF_vars(Poll(s))

-----------------------------------------------------------------------------
(* Claims about the pub/sub topic actor, checked under SpecTopic           *)

Max(S) == CHOOSE x \in S : \A y \in S : y <= x

Registered(s) == subscribers[s].st # "none"

\* C11: a subscriber registering with FromEnd(k) on a topic whose log has e
\* entries starts reading at offset max(0, e - k), for every k and e (0 when
\* k > e); one registering with FromBeginning(n) starts at n.
C11_FromEndClamp ==
    \A s \in SubIds : Registered(s) =>
        LET r == subscribers[s] IN
        IF r.req[1] = "FromEnd"
        THEN r.start = Max({0, r.seen - r.req[2]})
        ELSE r.start = r.req[2]


\* the payloads of the frames subscriber s has been sent, in the order sent
SentPayloads(s) == [i \in 1..Len(subscribers[s].sink) |-> subscribers[s].sink[i].message]

\* the payloads the broker appended to the log, in offset order
LogPayloads == [i \in 1..Len(log) |-> log[i].records]

IsPrefix(a, b) == Len(a) <= Len(b) /\ a = SubSeq(b, 1, Len(a))

FromStart(s) == Registered(s) /\ subscribers[s].req = FromBeginning(0)

\* C12: a subscriber that registers with FromBeginning(0) is at every moment
\* sent a prefix of what the broker appended (in append order, nothing twice,
\* nothing skipped), and is eventually sent all of it, whatever the
\* interleaving of the publishers' writes and the subscriber's polls.
C12_LogMonotonicity ==
    /\ [](\A s \in SubIds : FromStart(s) => IsPrefix(SentPayloads(s), LogPayloads))
    /\ \A s \in SubIds : FromStart(s) ~> (SentPayloads(s) = LogPayloads)

C12_Witness ==
    /\ FromStart(1)
    /\ subscribers[1].seen = 0
    /\ Len(log) = MaxLog
    /\ \A i, j \in 1..Len(log) : i # j => log[i].records # log[j].records
    /\ SentPayloads(1) = LogPayloads


\* the frame whose payload lies at the offset that the j-th frame sent to
\* subscriber s was read from
PublishedAt(s, j) == published[subscribers[s].start + j]

\* C13: a batch published as one Batch frame of N >= 1 messages is written as
\* one log entry with batch_size = N and is delivered to each subscriber as a
\* single Batch frame of N messages; a frame published as Message is delivered
\* as a Message frame.
C13_BatchDeliveredAsBatch ==
    /\ Len(log) = Len(published)
    /\ \A i \in 1..Len(log) :
          /\ log[i].records = published[i].message
          /\ published[i].ty = "BatchMessage" => log[i].batch_size = published[i].size
          /\ published[i].ty = "Message" => log[i].batch_size = 1
    /\ \A s \in SubIds : \A j \in 1..Len(subscribers[s].sink) :
          /\ subscribers[s].sink[j].ty = PublishedAt(s, j).ty
          /\ subscribers[s].sink[j] = PublishedAt(s, j)

\* C15: on a publisher channel only Message and Batch frames are accepted; a
\* frame of any other kind is treated as a protocol error, not silently
\* ignored, and is never written to the log.
C15_OtherFramesAreErrors ==
    /\ \A i \in 1..Len(published) : published[i].ty \in {"Message", "BatchMessage"}
    /\ step.ty \notin {"Init", "Message", "BatchMessage"} => step.res = "error"


-----------------------------------------------------------------------------
(* The client's Subscriber stream: client/src/streams/pubsub/subscriber.rs *)

\* selium_protocol::utils::decode_message_batch: the messages in the order
\* they lie in the batch
RECURSIVE decode_messages(_, _)
decode_messages(bytes, n) ==
    IF n = 0 THEN <<>>
    ELSE <<SubSeq(bytes, 2, 1 + bytes[1])>>
            \o decode_messages(SubSeq(bytes, 2 + bytes[1], Len(bytes)), n - 1)

decode_message_batch(bytes) == decode_messages(Tail(bytes), Head(bytes))

\* MessageEncoder::encode of the codec the streams are opened with: an item
\* is a number below 256, its encoding is one byte
encoder_encode(item) == <<item>>

\* MessageDecoder::decode of the same codec
decoder_decode(bytes) ==
    IF Len(bytes) = 1 THEN <<"Ok", bytes[1]>> ELSE <<"Err", "DecodeFailure">>

Ready(item) == <<"Ready", item>>

Pending == <<"Pending">>

\* Subscriber::decode_message
decode_message(bytes) == Ready(Some(decoder_decode(bytes)))

\* Vec::pop
pop(vec) ==
    IF vec = <<>> THEN [vec |-> vec, item |-> <<"None">>]
    ELSE [vec |-> SubSeq(vec, 1, Len(vec) - 1), item |-> Some(vec[Len(vec)])]

\* Subscriber::poll_next on message_batch `mb` and the frames `st` waiting in
\* the stream, no decompression configured
RECURSIVE poll_next(_, _)
poll_next(mb, st) ==
    LET popped == IF mb = <<"None">> THEN [vec |-> <<>>, item |-> <<"None">>]
                  ELSE pop(unwrap(mb))
    IN  IF popped.item # <<"None">>
        THEN [message_batch |-> Some(popped.vec), stream |-> st,
              res |-> decode_message(unwrap(popped.item))]
        ELSE IF st = <<>>
        THEN [message_batch |-> mb, stream |-> st, res |-> Pending]
        ELSE IF Head(st).ty = "Message"
        THEN [message_batch |-> mb, stream |-> Tail(st),
              res |-> decode_message(Head(st).message)]
        ELSE IF Head(st).ty = "BatchMessage"
        THEN poll_next(Some(decode_message_batch(Head(st).message)), Tail(st))
        ELSE [message_batch |-> mb, stream |-> Tail(st), res |-> Ready(<<"None">>)]

-----------------------------------------------------------------------------
(* SpecSubscriber: frames reach a client Subscriber, which is polled       *)

\* most frames sent to the client
MaxFrames == 3

\* the items a publisher sends in its n-th frame, in the order it sends them
Items(n, k) == [j \in 1..k |-> 10 * n + j]

\* the frame holding these items one by one (Message) or as a batch
FrameOf(items, batched) ==
    IF batched THEN send_batch([j \in 1..Len(items) |-> encoder_encode(items[j])])
    ELSE send_single(encoder_encode(items[1]))

notClientVars ==
    <<codecVars, wireVars, indexVars, topicVars, cleanerVars, serverVars, sessionVars>>

InitSubscriber ==
    /\ ClientIdle
    /\ CodecIdle
    /\ WireIdle
    /\ IndexIdle
    /\ TopicIdle
    /\ CleanerIdle
    /\ ServerIdle
    /\ SessionIdle

\* Frame::Error(ErrorPayload { code, .. })
Error(code) == [ty |-> "Error", code |-> code]

\* the codes of the errors the broker reports on a channel
ErrorCodes == {"INVALID_TOPIC_NAME"}

EndOfStream == Ready(<<"None">>)

Ended == yielded # <<>> /\ yielded[Len(yielded)] = EndOfStream

\* the broker's sink.send(frame) reaches the client's stream
Deliver(frame, items) ==
    /\ Len(arrived) < MaxFrames
    /\ Len(stream) < MaxFrames
    /\ stream' = Append(stream, frame)
    /\ arrived' = arrived \o items
    /\ UNCHANGED <<message_batch, yielded, notClientVars>>

\* subscriber.next().await: one call of poll_next that returns Ready
PollNext ==
    LET r == poll_next(message_batch, stream) IN
    /\ ~Ended
    /\ r.res # Pending
    /\ message_batch' = r.message_batch
    /\ stream' = r.stream
    /\ yielded' = Append(yielded, r.res)
    /\ UNCHANGED <<arrived, notClientVars>>

NextSubscriber ==
    \/ \E k \in BatchSizes, batched \in BOOLEAN :
         LET items == Items(Len(arrived) + 1, k) IN
         /\ batched \/ k = 1
         /\ Deliver(FrameOf(items, batched), items)
    \/ \E frame \in OtherFrames : Deliver(frame, <<>>)
    \/ \E code \in ErrorCodes : Deliver(Error(code), <<>>)
    \/ PollNext

SpecSubscriber == InitSubscriber /\ [][NextSubscriber]_vars

-----------------------------------------------------------------------------
(* Claims about the client Subscriber, checked under SpecSubscriber        *)

\* C14: when the client Subscriber receives a Batch frame holding m1..mN in
\* the order the publisher pushed them, successive poll_next calls yield m1,
\* m2, ..., mN in that order, before any message of a later frame.
C14_BatchYieldedInOrder ==
    \A i \in 1..Len(yielded) :
        yielded[i] # EndOfStream =>
            /\ i <= Len(arrived)
            /\ yielded[i] = Ready(Some(<<"Ok", arrived[i]>>))


-----------------------------------------------------------------------------
(* The log cleaner: log/src/tasks/cleaner.rs                               *)

\* a segment: its base offset and the timestamp of its latest entry
Segment(base, latest) == [base |-> base, latest |-> latest]

\* SegmentList::find_stale_segments: the places in the list of the segments
\* that are not the active (last) one and whose latest entry is older than
\* stale_duration at time t
find_stale_segments(segs, stale_duration, t) ==
    {i \in 1..(Len(segs) - 1) : t - segs[i].latest > stale_duration}

\* SegmentList::remove_segments
RECURSIVE remove_from(_, _, _)
remove_from(segs, stale, i) ==
    IF i > Len(segs) THEN <<>>
    ELSE (IF i \in stale THEN <<>> ELSE <<segs[i]>>) \o remove_from(segs, stale, i + 1)

remove_segments(segs, stale) == remove_from(segs, stale, 1)

\* CleanerTask::remove_stale_segments that measures age against the cleaner's interval
remove_stale_segments_interval(segs, config, t) ==
    remove_segments(segs, find_stale_segments(segs, config.cleaner_interval, t))

\* CleanerTask::remove_stale_segments at time t
remove_stale_segments(segs, config, t) ==
    remove_segments(segs, find_stale_segments(segs, config.retention_period, t))

-----------------------------------------------------------------------------
(* SpecCleaner: a log with its cleaner task, a writer and the log's owner  *)

\* latest reading of the clock
MaxClock == 3

\* most segments the log holds
MaxSegments == 3

\* LogConfig: cleaner_interval and retention_period, in ticks of the clock
Configs == {[cleaner_interval |-> 1, retention_period |-> r] : r \in {1, 2}}

notCleanerVars ==
    <<codecVars, wireVars, indexVars, topicVars, clientVars, serverVars, sessionVars>>

\* MessageLog::open: one active segment; CleanerTask::start: a fresh token, the
\* task spawned with a clone of the Arc, the Arc returned to the owner
InitCleaner ==
    /\ segments = <<Segment(0, 0)>>
    /\ now = 0
    /\ \E config \in Configs :
         cleaner = [owner |-> TRUE, task |-> "running", token |-> FALSE,
                    late |-> FALSE, config |-> config,
                    wake |-> config.cleaner_interval]
    /\ pass = NoPass
    /\ CodecIdle
    /\ WireIdle
    /\ IndexIdle
    /\ TopicIdle
    /\ ClientIdle
    /\ ServerIdle
    /\ SessionIdle

Tick ==
    /\ now < MaxClock
    /\ now' = now + 1
    /\ UNCHANGED <<segments, cleaner, pass, notCleanerVars>>

\* MessageLog::write at time now: into the active segment, or, when its index
\* is full, into a new active segment
WriteEntry(rotate) ==
    /\ segments # <<>>
    /\ IF rotate
       THEN /\ Len(segments) < MaxSegments
            /\ segments' = Append(segments,
                    Segment(segments[Len(segments)].base + MaxIndexEntries, now))
       ELSE segments' = [segments EXCEPT ![Len(segments)].latest = now]
    /\ UNCHANGED <<now, cleaner, pass, notCleanerVars>>

\* Drop for CleanerTask runs when the last Arc goes
last_arc(owner, task) == ~owner /\ task # "running"

\* one round of CleanerTask::run: select! { sleep(cleaner_interval), cancelled() };
\* ok: remove_stale_segments returns Ok
Select(ok) ==
    /\ cleaner.task = "running"
    /\ cleaner.token \/ now >= cleaner.wake
    /\ IF cleaner.token
       THEN /\ cleaner' = [cleaner EXCEPT !.task = "exited"]
            /\ UNCHANGED <<segments, pass>>
       ELSE IF ok
       THEN /\ segments' = remove_stale_segments(segments, cleaner.config, now)
            /\ pass' = [before |-> segments, after |-> segments', at |-> now,
                        res |-> "ok"]
            /\ cleaner' = [cleaner EXCEPT !.wake = now + cleaner.config.cleaner_interval,
                                          !.late = @ \/ ~cleaner.owner]
       ELSE /\ cleaner' = [cleaner EXCEPT !.task = "panicked",
                                          !.token = @ \/ last_arc(cleaner.owner, "panicked")]
            /\ UNCHANGED <<segments, pass>>
    /\ UNCHANGED <<now, notCleanerVars>>

\* the owner of the log drops the Arc<CleanerTask> that start returned
DropHandle ==
    /\ cleaner.owner
    /\ cleaner' = [cleaner EXCEPT !.owner = FALSE,
                                  !.token = @ \/ last_arc(FALSE, cleaner.task)]
    /\ UNCHANGED <<segments, now, pass, notCleanerVars>>

NextCleaner ==
    \/ Tick
    \/ \E rotate \in BOOLEAN : WriteEntry(rotate)
    \/ \E ok \in BOOLEAN : Select(ok)
    \/ DropHandle

SpecCleaner == InitCleaner /\ [][NextCleaner]_vars

-----------------------------------------------------------------------------
(* Claims about the cleaner, checked under SpecCleaner                     *)

Passed == pass.res = "ok"

\* the segment at place i before the pass is gone after it
Removed(i) == \A j \in 1..Len(pass.after) : pass.after[j].base # pass.before[i].base

Active(i) == i = Len(pass.before)

Old(i) == pass.at - pass.before[i].latest > cleaner.config.retention_period

\* C16: on each cleaner pass a segment is removed if and only if it is not the
\* active segment and its latest entry's timestamp is older than
\* retention_period; the active segment is never removed, however old.
C16_CleanerRetention ==
    Passed =>
        /\ \A i \in 1..Len(pass.before) : Removed(i) <=> (~Active(i) /\ Old(i))
        /\ ~Removed(Len(pass.before))
        /\ Len(pass.after) = Cardinality({i \in 1..Len(pass.before) : ~Removed(i)})

C16_Witness ==
    /\ Passed
    /\ Len(pass.before) = 3
    /\ Removed(1) /\ Removed(2) /\ ~Removed(3)
    /\ Old(3)

\* C17: dropping the handle that CleanerTask::start returned cancels the
\* cleaner: once the owner has dropped it the token is cancelled, and no
\* further remove_stale_segments pass starts.
C17_DropCancelsCleaner ==
    (cleaner.task # "none" /\ ~cleaner.owner) => (cleaner.token /\ ~cleaner.late)

-----------------------------------------------------------------------------
(* Claim about the subscriber tasks on shutdown, checked under SpecTopic   *)

\* the broker has shut the topic down: its channel is closed, Topic::run and
\* Subscribers::run are over
ShutDown ==
    /\ handle = "closed"
    /\ topic.status # "running"
    /\ supervisor.status = "returned"

\* C18: every per-subscriber task terminates on shutdown: once the broker has
\* shut the topic down the shared cancellation token is cancelled (and each
\* subscriber task then leaves its polling loop).
C18_SubscriberTasksCancelled ==
    (ShutDown /\ \E s \in SubIds : subscribers[s].st = "polling") => supervisor.token


-----------------------------------------------------------------------------
(* The broker's dispatcher: server/src/server.rs                            *)

HeaderTypes ==
    {"RegisterPublisher", "RegisterSubscriber", "RegisterReplier", "RegisterRequestor"}

\* a header frame of a client stream
Register(ty, name) == [ty |-> ty, topic |-> name]

\* Frame::get_topic
get_topic(frame) ==
    IF frame.ty \in HeaderTypes THEN Some(frame.topic) ELSE <<"None">>

\* handle_stream, `match frame` under `!ts.contains_key(topic)`: the Sender inserted
sender_kind(frame) ==
    IF frame.ty \in {"RegisterPublisher", "RegisterSubscriber"} THEN "Pubsub"
    ELSE "ReqRep"

\* TopicName::is_valid: a name in the reserved namespace is refused
is_valid(name) == name # "/selium/proxy"

\* a header check that lets every name pass
validate_any(name) == [ty |-> "Ok"]

\* handle_stream, not(feature = "__cloud"): the frame that answers the header
validate(name) ==
    IF ~is_valid(name) THEN Error("INVALID_TOPIC_NAME") ELSE [ty |-> "Ok"]

\* the buffer of the channel Topic::pair creates, scaled to what the
\* handle_stream tasks of the model can fill (SOCK_CHANNEL_SIZE in the code)
ChannelBuffer == 0

\* futures::channel::mpsc::channel(buffer): room for buffer + one socket per Sender
capacity(buffer) == buffer + 1

\* tokio::sync::Mutex::lock that is granted whoever holds the mutex
lock_free_always(holder) == TRUE

\* tokio::sync::Mutex::lock is granted when nobody holds the mutex
lock_free(holder) == holder = Free

\* HashMap::contains_key on Server::topics
contains_key(ts, name) == ts[name].kind # None

\* join_all that does not wait
join_all_nowait(handles) == TRUE

\* join_all(topic_handles.iter_mut()) has completed: every task pushed has ended
join_all(handles) ==
    \A i \in 1..Len(handles) : handles[i].pushed => handles[i].st = "finished"

-----------------------------------------------------------------------------
(* SpecServer: Server::listen, the handle_stream tasks, the topic tasks     *)

\* most connections the endpoint accepts
MaxConns == 1

\* the first frames streams carry
FirstFrames ==
    {Register(ty, name) : ty \in HeaderTypes, name \in TopicNames}
        \cup {MessagePayload(<<1>>)}

notServerVars ==
    <<codecVars, wireVars, indexVars, topicVars, clientVars, cleanerVars, sessionVars>>

InitServer ==
    /\ ServerIdle
    /\ CodecIdle
    /\ WireIdle
    /\ IndexIdle
    /\ TopicIdle
    /\ ClientIdle
    /\ CleanerIdle
    /\ SessionIdle

\* Server::listen, `Some(conn) = self.endpoint.accept()`: connect(conn)
Accept ==
    /\ server.pc = "listen"
    /\ ~endpoint.rejecting
    /\ server.conns < MaxConns
    /\ server' = [server EXCEPT !.conns = @ + 1]
    /\ UNCHANGED <<endpoint, topics, topic_handles, locks, handlers, notServerVars>>

\* handle_stream up to `topics.lock()`: the header is read and answered;
\* sent: stream.send of the answer succeeds
ReadHeader(h, frame, sent) ==
    /\ server.conns > 0
    /\ handlers[h].pc = "none"
    /\ handlers' = [handlers EXCEPT ![h] =
            IF get_topic(frame) = <<"None">>
            THEN [pc |-> "failed", frame |-> frame, reply |-> None]
            ELSE IF ~sent
            THEN [pc |-> "failed", frame |-> frame, reply |-> None]
            ELSE LET answer == validate(unwrap(get_topic(frame))) IN
                 [pc |-> IF answer.ty = "Ok" THEN "lock" ELSE "closed",
                  frame |-> frame, reply |-> answer]]
    /\ UNCHANGED <<endpoint, server, topics, topic_handles, locks, notServerVars>>

\* handle_stream, `let mut ts = topics.lock().await` and `ts.contains_key(topic)`
LockTopics(h) ==
    /\ handlers[h].pc = "lock"
    /\ lock_free(locks.topics)
    /\ locks' = [locks EXCEPT !.topics = <<"handle_stream", h>>]
    /\ handlers' = [handlers EXCEPT ![h].pc =
            IF contains_key(topics, unwrap(get_topic(handlers[h].frame)))
            THEN "send" ELSE "create"]
    /\ UNCHANGED <<endpoint, server, topics, topic_handles, notServerVars>>

\* handle_stream, the topic is new: Topic::pair and tokio::spawn of its run();
\* ok: MessageLog::open succeeds (a req/rep topic opens no log)
CreateTopic(h, ok) ==
    LET frame == handlers[h].frame IN
    /\ handlers[h].pc = "create"
    /\ IF ok \/ sender_kind(frame) = "ReqRep"
       THEN /\ topic_handles' = Append(topic_handles,
                    [name |-> unwrap(get_topic(frame)), kind |-> sender_kind(frame),
                     by |-> frame.ty, st |-> "running", pushed |-> FALSE])
            /\ handlers' = [handlers EXCEPT ![h].pc = "push"]
            /\ UNCHANGED locks
       ELSE /\ handlers' = [handlers EXCEPT ![h].pc = "failed"]
            /\ locks' = [locks EXCEPT !.topics = Free]
            /\ UNCHANGED topic_handles
    /\ UNCHANGED <<endpoint, server, topics, notServerVars>>

\* handle_stream, `topic_handles.lock().await.push(handle)` and `ts.insert(..)`
PushHandle(h) ==
    LET name == unwrap(get_topic(handlers[h].frame)) IN
    /\ handlers[h].pc = "push"
    /\ lock_free(locks.topic_handles)
    /\ topic_handles' = [i \in 1..Len(topic_handles) |->
            IF topic_handles[i].name = name /\ ~topic_handles[i].pushed
            THEN [topic_handles[i] EXCEPT !.pushed = TRUE]
            ELSE topic_handles[i]]
    /\ topics' = [topics EXCEPT ![name] =
            [kind |-> sender_kind(handlers[h].frame), channel |-> "open", queue |-> 0]]
    /\ handlers' = [handlers EXCEPT ![h].pc = "send"]
    /\ UNCHANGED <<endpoint, server, locks, notServerVars>>

\* the Receiver of the topic's channel is alive: its task has not ended
receiving(name) ==
    \E i \in 1..Len(topic_handles) :
        topic_handles[i].name = name /\ topic_handles[i].st = "running"

\* handle_stream, `tx.send(Socket::..).await` completes, and the return that
\* drops `ts`: the send waits while the channel is full
SendSocket(h) ==
    LET name == unwrap(get_topic(handlers[h].frame)) IN
    /\ handlers[h].pc = "send"
    /\ IF topics[name].channel = "open" /\ receiving(name)
       THEN /\ topics[name].queue < capacity(ChannelBuffer)
            /\ topics' = [topics EXCEPT ![name].queue = @ + 1]
            /\ handlers' = [handlers EXCEPT ![h].pc = "done"]
       ELSE /\ handlers' = [handlers EXCEPT ![h].pc = "failed"]
            /\ UNCHANGED topics
    /\ locks' = [locks EXCEPT !.topics = Free]
    /\ UNCHANGED <<endpoint, server, topic_handles, notServerVars>>

\* a topic task takes a socket: `Some(socket) = self.handle.next()`
TaskRecv(i) ==
    /\ i \in 1..Len(topic_handles)
    /\ topic_handles[i].st = "running"
    /\ topics[topic_handles[i].name].queue > 0
    /\ topics' = [topics EXCEPT ![topic_handles[i].name].queue = @ - 1]
    /\ UNCHANGED <<endpoint, server, topic_handles, locks, handlers, notServerVars>>

\* a topic task ends: its run() has returned or panicked
TaskEnd(i) ==
    /\ i \in 1..Len(topic_handles)
    /\ topic_handles[i].st = "running"
    /\ topic_handles' = [topic_handles EXCEPT ![i].st = "finished"]
    /\ UNCHANGED <<endpoint, server, topics, locks, handlers, notServerVars>>

\* Server::listen, `Ok(()) = ctrl_c()`; Server::shutdown, reject_new_connections()
CtrlC ==
    /\ server.pc = "listen"
    /\ server' = [server EXCEPT !.pc = "lock_topics"]
    /\ endpoint' = [endpoint EXCEPT !.rejecting = TRUE]
    /\ UNCHANGED <<topics, topic_handles, locks, handlers, notServerVars>>

\* Server::shutdown, `self.topics.lock().await`
ShutdownLockTopics ==
    /\ server.pc = "lock_topics"
    /\ lock_free(locks.topics)
    /\ locks' = [locks EXCEPT !.topics = <<"shutdown">>]
    /\ server' = [server EXCEPT !.pc = "lock_handles"]
    /\ UNCHANGED <<endpoint, topics, topic_handles, handlers, notServerVars>>

\* Server::shutdown, `self.topic_handles.lock().await`
ShutdownLockHandles ==
    /\ server.pc = "lock_handles"
    /\ lock_free(locks.topic_handles)
    /\ locks' = [locks EXCEPT !.topic_handles = <<"shutdown">>]
    /\ server' = [server EXCEPT !.pc = "close_channels"]
    /\ UNCHANGED <<endpoint, topics, topic_handles, handlers, notServerVars>>

\* Server::shutdown, `topics.values_mut().for_each(|t| t.close_channel())`
CloseChannels ==
    /\ server.pc = "close_channels"
    /\ topics' = [n \in TopicNames |->
            IF contains_key(topics, n) THEN [topics[n] EXCEPT !.channel = "closed"]
            ELSE topics[n]]
    /\ server' = [server EXCEPT !.pc = "join"]
    /\ UNCHANGED <<endpoint, topic_handles, locks, handlers, notServerVars>>

\* Server::shutdown, `join_all(topic_handles.iter_mut()).await` completes
JoinAll ==
    /\ server.pc = "join"
    /\ join_all(topic_handles)
    /\ server' = [server EXCEPT !.pc = "close_endpoint"]
    /\ UNCHANGED <<endpoint, topics, topic_handles, locks, handlers, notServerVars>>

\* Server::shutdown, `self.endpoint.close(SHUTDOWN, ..)`
CloseEndpoint ==
    /\ server.pc = "close_endpoint"
    /\ endpoint' = [endpoint EXCEPT !.closed = "SHUTDOWN"]
    /\ server' = [server EXCEPT !.pc = "wait_idle"]
    /\ UNCHANGED <<topics, topic_handles, locks, handlers, notServerVars>>

\* Server::shutdown, `wait_idle().await` and the return that drops both guards;
\* Server::listen breaks
WaitIdle ==
    /\ server.pc = "wait_idle"
    /\ locks' = [topics |-> Free, topic_handles |-> Free]
    /\ server' = [server EXCEPT !.pc = "stopped"]
    /\ UNCHANGED <<endpoint, topics, topic_handles, handlers, notServerVars>>

NextServer ==
    \/ Accept
    \/ \E h \in Handlers, frame \in FirstFrames, sent \in BOOLEAN :
         ReadHeader(h, frame, sent)
    \/ \E h \in Handlers : LockTopics(h)
    \/ \E h \in Handlers, ok \in BOOLEAN : CreateTopic(h, ok)
    \/ \E h \in Handlers : PushHandle(h)
    \/ \E h \in Handlers : SendSocket(h)
    \/ \E i \in 1..Cardinality(Handlers) : TaskRecv(i)
    \/ \E i \in 1..Cardinality(Handlers) : TaskEnd(i)
    \/ CtrlC
    \/ ShutdownLockTopics
    \/ ShutdownLockHandles
    \/ CloseChannels
    \/ JoinAll
    \/ CloseEndpoint
    \/ WaitIdle

SpecServer == InitServer /\ [][NextServer]_vars

-----------------------------------------------------------------------------
(* Claims about the dispatcher, checked under SpecServer                    *)

AnyClosed == \E n \in TopicNames : topics[n].channel = "closed"

AllClosed == \A n \in TopicNames : contains_key(topics, n) => topics[n].channel = "closed"

AllFinished == \A i \in 1..Len(topic_handles) : topic_handles[i].st = "finished"

\* C19: broker shutdown performs its steps in order: new connections are
\* rejected before any topic is signalled to close, every topic's channel is
\* closed before the topic tasks are awaited, the endpoint is closed, with
\* SHUTDOWN, only when every topic task has finished, and once the shutdown
\* signal is handled listen() accepts no further connection.
C19_ShutdownOrder ==
    /\ [](AnyClosed => endpoint.rejecting)
    /\ [](server.pc = "join" => AllClosed)
    /\ [][(endpoint.closed = None /\ endpoint'.closed # None) =>
            (endpoint'.closed = "SHUTDOWN" /\ AllClosed /\ AllFinished)]_vars
    /\ [][server.pc # "listen" => server'.conns = server.conns]_vars

C19_Witness ==
    /\ server.pc = "stopped"
    /\ endpoint.closed = "SHUTDOWN"
    /\ Len(topic_handles) = 2
    /\ AllClosed
    /\ AllFinished

\* the topic tasks spawned for name n
Actors(n) == {i \in 1..Len(topic_handles) : topic_handles[i].name = n}

\* C20: for any interleaving of concurrent handle_stream calls at most one
\* topic actor is ever spawned per topic name; the first registration inserts
\* the registry entry and fixes its kind (pub/sub for Publisher / Subscriber
\* headers, req/rep for Replier / Requestor headers), and afterwards the entry
\* is never replaced, removed or changed in kind.
C20_OneActorPerTopic ==
    /\ [](\A n \in TopicNames :
            /\ Cardinality(Actors(n)) <= 1
            /\ contains_key(topics, n) => Cardinality(Actors(n)) = 1
            /\ \A i \in Actors(n) :
                /\ topic_handles[i].kind =
                      (IF topic_handles[i].by \in {"RegisterPublisher", "RegisterSubscriber"}
                       THEN "Pubsub" ELSE "ReqRep")
                /\ topics[n].kind \in {None, topic_handles[i].kind})
    /\ [][\A n \in TopicNames :
            contains_key(topics, n) => topics'[n].kind = topics[n].kind]_vars

C20_Witness ==
    /\ handlers[1].pc = "done"
    /\ handlers[2].pc = "done"
    /\ handlers[1].frame = Register("RegisterRequestor", "/moo/cow")
    /\ handlers[2].frame = Register("RegisterPublisher", "/moo/cow")
    /\ Cardinality(Actors("/moo/cow")) = 1
    /\ topics["/moo/cow"].kind \in {"Pubsub", "ReqRep"}


\* the header frame of handle_stream task h names an invalid topic
InvalidHeader(h) ==
    /\ handlers[h].pc # "none"
    /\ get_topic(handlers[h].frame) # <<"None">>
    /\ ~is_valid(unwrap(get_topic(handlers[h].frame)))

\* the first frame of handle_stream task h is no registration header
NoHeader(h) ==
    /\ handlers[h].pc # "none"
    /\ get_topic(handlers[h].frame) = <<"None">>

\* C21: a channel whose header names an invalid topic is answered with the
\* invalid-topic error and closed: no topic actor is spawned for it, the topic
\* registry is left unchanged and the channel is never handed to any topic; a
\* channel whose first frame is no registration header is never registered.
C21_InvalidTopicRejected ==
    /\ [](\A h \in Handlers : InvalidHeader(h) =>
            /\ handlers[h].pc \in {"closed", "failed"}
            /\ handlers[h].pc = "closed" =>
                    handlers[h].reply = Error("INVALID_TOPIC_NAME")
            /\ handlers[h].pc = "failed" => handlers[h].reply = None)
    /\ [](\A h \in Handlers : NoHeader(h) =>
            handlers[h].pc = "failed" /\ handlers[h].reply = None)
    /\ [](\A n \in TopicNames : ~is_valid(n) =>
            ~contains_key(topics, n) /\ Actors(n) = {} /\ topics[n].queue = 0)
    /\ [][\A h \in Handlers :
            (handlers[h].pc = "none" /\ handlers'[h].pc \in {"closed", "failed"}) =>
                (topics' = topics /\ topic_handles' = topic_handles)]_vars

C21_Witness ==
    /\ InvalidHeader(1)
    /\ handlers[1].pc = "closed"
    /\ handlers[1].reply = Error("INVALID_TOPIC_NAME")
    /\ NoHeader(2)
    /\ handlers[2].pc = "failed"
    /\ Len(topic_handles) = 0

\* handle_stream task h waits in `tx.send(..).await` for room in the channel
\* of its topic
WaitingToSend(h) ==
    /\ handlers[h].pc = "send"
    /\ LET name == unwrap(get_topic(handlers[h].frame)) IN
        /\ topics[name].channel = "open"
        /\ receiving(name)
        /\ topics[name].queue >= capacity(ChannelBuffer)

\* C27: the topic registry lock is held only for the lookup / insert:
\* handle_stream does not hold it while it waits to hand the channel to the
\* topic actor, so a topic whose registration queue is full does not delay a
\* concurrent registration.
C27_RegistryLockOnlyForLookup ==
    \A h \in Handlers :
        WaitingToSend(h) => locks.topics # <<"handle_stream", h>>


-----------------------------------------------------------------------------
(* The client's keep-alive supervisor: client/src/keep_alive/reqrep.rs     *)

Err(e) == <<"Err", e>>

\* the errors a stream returns: a lost connection, a refusal by the broker
StreamErrors == {"ConnectionError", "OpenStream"}

\* keep_alive::helpers::is_recoverable_error: transport errors are recoverable
is_recoverable_error(err) == err = "ConnectionError"

\* BackoffStrategy::into_iter
into_iter(strategy) == [current |-> 0, max_attempts |-> strategy.max_attempts]

\* BackoffStrategyIter::next: the iterator yields max_attempts attempts
next(attempts) ==
    IF attempts.current < attempts.max_attempts
    THEN [item |-> Some(attempts.current + 1),
          iter |-> [attempts EXCEPT !.current = @ + 1]]
    ELSE [item |-> <<"None">>, iter |-> attempts]

\* a try_reconnect that goes on when the iterator is exhausted
attempt_arm_always(item) == "sleep"

\* try_reconnect, `match attempts.next()`
attempt_arm(item) ==
    IF item = <<"None">> THEN "too_many_retries" ELSE "sleep"

\* a try_reconnect that retries after every error
reconnect_arm_retry(res) ==
    IF res = Ok THEN "return" ELSE "loop"

\* try_reconnect, `match T::reestablish_connection(connection, headers).await`
reconnect_arm(res) ==
    IF res = Ok THEN "return"
    ELSE IF is_recoverable_error(res[2]) THEN "loop"
    ELSE "return_err"

\* KeepAlive<Requestor>::request, `match self.stream.request(req.clone()).await`
request_arm(res) ==
    IF res = Ok THEN "return"
    ELSE IF is_recoverable_error(res[2]) THEN "try_reconnect"
    ELSE "return_err"

\* a listen() that returns when the inner listen returns Ok
listen_arm_ok(res) ==
    IF res = Ok THEN "return"
    ELSE IF ~is_recoverable_error(res[2]) THEN "return_err"
    ELSE "try_reconnect"

\* KeepAlive<Replier>::listen, `match self.stream.listen().await`
listen_arm(res) ==
    IF res # Ok /\ ~is_recoverable_error(res[2]) THEN "return_err"
    ELSE "try_reconnect"

-----------------------------------------------------------------------------
(* SpecKeepAlive: one KeepAlive<Requestor> or KeepAlive<Replier> in use    *)

\* the largest max_attempts a BackoffStrategy is built with
MaxAttempts == 2

\* most calls of request() / listen() the user makes
MaxOps == 2

\* most requests counted as served since the last reconnection
MaxServed == 1

\* what a stream operation or a reconnection attempt returns
Results == {Ok} \cup {Err(e) : e \in StreamErrors}

\* what Replier::listen returns: Ok when the stream has ended, the error of
\* the stream, or the error handle_frame met in a request (`?`)
ListenResults == Results \cup {Err("DecodeFailure"), Err("EncodeFailure")}

notKeepVars ==
    <<codecVars, wireVars, indexVars, topicVars, clientVars, cleanerVars, serverVars,
      link, reqrep, publisher>>

\* KeepAlive::new(stream, client.backoff_strategy)
InitKeepAlive ==
    /\ \E ty \in {"Requestor", "Replier"}, max \in 0..MaxAttempts :
         keep = [NoKeepAlive EXCEPT !.stream = ty,
                                    !.backoff_strategy = [max_attempts |-> max]]
    /\ link = NoLink
    /\ reqrep = NoReqRep
    /\ publisher = NoPublisher
    /\ CodecIdle
    /\ WireIdle
    /\ IndexIdle
    /\ TopicIdle
    /\ ClientIdle
    /\ CleanerIdle
    /\ ServerIdle

\* the user calls request() on a KeepAlive<Requestor>, listen() on a
\* KeepAlive<Replier>: `let mut attempts = self.backoff_strategy.clone().into_iter()`
Call ==
    /\ keep.pc \in {"idle", "done"}
    /\ keep.ops < MaxOps
    /\ keep' = [keep EXCEPT
            !.op = IF keep.stream = "Requestor" THEN "request" ELSE "listen",
            !.pc = "op",
            !.attempts = into_iter(keep.backoff_strategy),
            !.calls = 0, !.sleeps = 0, !.ops = @ + 1,
            !.outcome = <<"None">>, !.result = <<"None">>,
            !.req = keep.ops + 1, !.sent = <<>>]
    /\ UNCHANGED notKeepVars

\* KeepAlive<Requestor>::request: self.stream.request(req.clone()) returns res
StreamRequest(res) ==
    /\ keep.pc = "op"
    /\ keep.op = "request"
    /\ LET arm == request_arm(res) IN
       keep' = [keep EXCEPT
            !.sent = Append(@, keep.req),
            !.outcome = res,
            !.pc = IF arm = "try_reconnect" THEN "next" ELSE "done",
            !.result = IF arm = "try_reconnect" THEN @ ELSE res,
            !.served = IF arm = "return" /\ @ < MaxServed THEN @ + 1 ELSE @]
    /\ UNCHANGED notKeepVars

\* Replier::listen inside KeepAlive<Replier>::listen: a request is handled
Serve ==
    /\ keep.pc = "op"
    /\ keep.op = "listen"
    /\ keep.served < MaxServed
    /\ keep' = [keep EXCEPT !.served = @ + 1]
    /\ UNCHANGED notKeepVars

\* KeepAlive<Replier>::listen: self.stream.listen() returns res
StreamListen(res) ==
    /\ keep.pc = "op"
    /\ keep.op = "listen"
    /\ LET arm == listen_arm(res) IN
       keep' = [keep EXCEPT
            !.outcome = res,
            !.pc = IF arm = "try_reconnect" THEN "next" ELSE "done",
            !.result = IF arm = "try_reconnect" THEN @ ELSE res]
    /\ UNCHANGED notKeepVars

\* try_reconnect, the head of the loop: attempts.next(); None returns
\* Err(TooManyRetries), which the `?` of request / listen returns to the user
NextAttempt ==
    /\ keep.pc = "next"
    /\ LET n == next(keep.attempts) IN
       IF attempt_arm(n.item) = "too_many_retries"
       THEN keep' = [keep EXCEPT !.pc = "done", !.result = Err("TooManyRetries")]
       ELSE keep' = [keep EXCEPT !.pc = "sleep", !.attempts = n.iter]
    /\ UNCHANGED notKeepVars

\* try_reconnect, `tokio::time::sleep(duration).await`
Sleep ==
    /\ keep.pc = "sleep"
    /\ keep' = [keep EXCEPT !.pc = "reestablish", !.sleeps = @ + 1]
    /\ UNCHANGED notKeepVars

\* try_reconnect, T::reestablish_connection returns res; Ok: on_reconnect and
\* back to the loop of request / listen
Reestablish(res) ==
    /\ keep.pc = "reestablish"
    /\ LET arm == reconnect_arm(res) IN
       keep' = [keep EXCEPT
            !.outcome = res,
            !.calls = @ + 1,
            !.pc = CASE arm = "return" -> "op"
                     [] arm = "loop" -> "next"
                     [] OTHER -> "done",
            !.result = IF arm = "return_err" THEN res ELSE @,
            !.reconnected = IF arm = "return" THEN TRUE ELSE @,
            !.served = IF arm = "return" THEN 0 ELSE @]
    /\ UNCHANGED notKeepVars

NextKeepAlive ==
    \/ Call
    \/ \E res \in Results : StreamRequest(res)
    \/ Serve
    \/ \E res \in ListenResults : StreamListen(res)
    \/ NextAttempt
    \/ Sleep
    \/ \E res \in Results : Reestablish(res)

SpecKeepAlive == InitKeepAlive /\ [][NextKeepAlive]_vars

-----------------------------------------------------------------------------
(* Claims about the keep-alive supervisor, checked under SpecKeepAlive     *)

\* C22: within one keep-alive-supervised user operation reestablish_connection
\* is called at most max_attempts times; when the budget is exhausted the
\* operation fails with TooManyRetries; with max_attempts = 0
\* reestablish_connection is never called and the first recoverable error
\* ends the operation.
C22_AttemptBudget ==
    /\ [](keep.calls <= keep.backoff_strategy.max_attempts)
    /\ [](keep.result = Err("TooManyRetries") =>
            keep.attempts.current = keep.backoff_strategy.max_attempts)
    /\ [][(keep.pc = "next" /\ keep.attempts.current = keep.attempts.max_attempts) =>
            (keep' = keep \/
               /\ keep'.pc = "done"
               /\ keep'.result = Err("TooManyRetries")
               /\ keep'.calls = keep.calls)]_vars

C22_Witness ==
    /\ keep.backoff_strategy.max_attempts = MaxAttempts
    /\ keep.calls = MaxAttempts
    /\ keep.pc = "done"
    /\ keep.result = Err("TooManyRetries")

\* the result is an error that is_recoverable_error refuses
Unrecoverable(res) == res \notin {<<"None">>, Ok} /\ ~is_recoverable_error(res[2])

\* C23: an unrecoverable error is surfaced immediately without retry: when the
\* user operation or a reestablish_connection attempt fails with an error for
\* which is_recoverable_error is false, the supervisor returns that same error
\* without sleeping, without consuming a further backoff attempt and without
\* calling reestablish_connection again.
C23_UnrecoverableSurfaced ==
    /\ [][(keep.pc \in {"op", "reestablish"} /\ Unrecoverable(keep'.outcome)) =>
            /\ keep'.pc = "done"
            /\ keep'.result = keep'.outcome
            /\ keep'.sleeps = keep.sleeps
            /\ keep'.attempts = keep.attempts
            /\ keep'.calls = keep.calls + (IF keep.pc = "reestablish" THEN 1 ELSE 0)]_vars
    /\ [][(keep.pc = "done" /\ keep' # keep) =>
            (keep'.pc = "op" /\ keep'.ops = keep.ops + 1 /\ keep'.calls = 0)]_vars

C23_Witness ==
    /\ keep.backoff_strategy.max_attempts = MaxAttempts
    /\ keep.pc = "done"
    /\ keep.calls = 1
    /\ keep.sleeps = 1
    /\ keep.result = Err("OpenStream")

\* C24: the attempt counter resets after a successful reconnection followed
\* by a successful user operation, for request and for listen: a transport
\* failure that happens after the stream has been re-established and has
\* served again finds the full max_attempts budget.
C24_AttemptsResetAfterService ==
    [][(keep.pc = "op" /\ keep'.pc = "next" /\ keep.reconnected /\ keep.served > 0) =>
            keep'.attempts.current = 0]_vars


-----------------------------------------------------------------------------
(* Reopening a client stream: reestablish_connection and open_stream of    *)
(* Publisher (publisher.rs), Subscriber (subscriber.rs), Replier           *)
(* (replier.rs)                                                             *)

\* Frame::RegisterPublisher / RegisterSubscriber / RegisterReplier (headers)
register_frame(kind, headers) == Register("Register" \o kind, headers.topic)

\* open_stream after `stream.send(frame).await?`: Publisher and Replier go on
\* to `handle_reply(&mut stream).await?`, Subscriber returns the stream
after_send(kind) == IF kind = "Subscriber" THEN "return" ELSE "reply"

\* BiStream::try_from_connection: a channel on the connection as it is
new_channel(id, conn) ==
    [id |-> id, conn |-> conn, sent |-> <<"None">>, reply |-> <<"None">>,
     acked |-> FALSE]

-----------------------------------------------------------------------------
(* SpecReconnect: one client stream whose connection is lost and reopened  *)

\* most reconnection attempts made for the stream
MaxReconnects == 2

\* the kinds of stream whose reestablish_connection is modelled
LinkKinds == {"Publisher", "Subscriber", "Replier"}

\* what the broker answers a header with
Answers == {[ty |-> "Ok"], Error("INVALID_TOPIC_NAME")}

notLinkVars ==
    <<codecVars, wireVars, indexVars, topicVars, clientVars, cleanerVars, serverVars,
      keep, reqrep, publisher>>

\* Publisher::spawn / Subscriber::spawn / Replier::spawn have returned: the
\* stream holds the channel open_stream gave it and the headers it was given
InitReconnect ==
    /\ \E kind \in LinkKinds, name \in {n \in TopicNames : is_valid(n)} :
         link = [NoLink EXCEPT
            !.kind = kind,
            !.headers = [topic |-> name],
            !.original = [topic |-> name],
            !.pc = "idle",
            !.channels = 1,
            !.stream = Some([new_channel(0, 0) EXCEPT
                    !.sent = Some(register_frame(kind, [topic |-> name])),
                    !.reply = Some([ty |-> "Ok"]),
                    !.acked = after_send(kind) = "reply"])]
    /\ keep = NoKeepAlive
    /\ reqrep = NoReqRep
    /\ publisher = NoPublisher
    /\ CodecIdle
    /\ WireIdle
    /\ IndexIdle
    /\ TopicIdle
    /\ ClientIdle
    /\ CleanerIdle
    /\ ServerIdle

\* the keep-alive supervisor calls
\* T::reestablish_connection(self.stream.get_connection(), self.stream.get_headers()):
\* `connection.lock().await`
LockConnection ==
    /\ link.pc = "idle"
    /\ link.attempts < MaxReconnects
    /\ link' = [link EXCEPT !.pc = "reconnect", !.locked = TRUE, !.attempts = @ + 1,
                            !.fresh = <<"None">>]
    /\ UNCHANGED notLinkVars

\* reestablish_connection, `connection.reconnect().await?`
Reconnect(ok) ==
    /\ link.pc = "reconnect"
    /\ link' = IF ok THEN [link EXCEPT !.pc = "open_stream", !.conn = @ + 1]
               ELSE [link EXCEPT !.pc = "idle", !.locked = FALSE]
    /\ UNCHANGED notLinkVars

\* open_stream, `BiStream::try_from_connection(connection.conn()).await?` and
\* `drop(connection)`
TryFromConnection(ok) ==
    /\ link.pc = "open_stream"
    /\ link' = IF ok
               THEN [link EXCEPT !.pc = "send", !.locked = FALSE,
                                 !.channels = @ + 1,
                                 !.fresh = Some(new_channel(link.channels, link.conn))]
               ELSE [link EXCEPT !.pc = "idle", !.locked = FALSE]
    /\ UNCHANGED notLinkVars

\* open_stream, `stream.send(Frame::Register..(headers)).await?`
SendHeader(ok) ==
    /\ link.pc = "send"
    /\ link' = IF ok
               THEN [link EXCEPT
                        !.pc = after_send(link.kind),
                        !.fresh = Some([unwrap(@) EXCEPT
                            !.sent = Some(register_frame(link.kind, link.headers))])]
               ELSE [link EXCEPT !.pc = "idle"]
    /\ UNCHANGED notLinkVars

\* the broker's handle_stream has read the header of the new channel and
\* answers it
BrokerAnswer(answer) ==
    /\ link.fresh # <<"None">>
    /\ unwrap(link.fresh).sent # <<"None">>
    /\ unwrap(link.fresh).reply = <<"None">>
    /\ link' = [link EXCEPT !.fresh = Some([unwrap(@) EXCEPT !.reply = Some(answer)])]
    /\ UNCHANGED notLinkVars

\* open_stream of Publisher and Replier, `handle_reply(&mut stream).await?`
HandleReply ==
    /\ link.pc = "reply"
    /\ unwrap(link.fresh).reply # <<"None">>
    /\ link' = IF unwrap(unwrap(link.fresh).reply).ty = "Ok"
               THEN [link EXCEPT !.pc = "return",
                                 !.fresh = Some([unwrap(@) EXCEPT !.acked = TRUE])]
               ELSE [link EXCEPT !.pc = "idle"]
    /\ UNCHANGED notLinkVars

\* try_reconnect, `Ok(stream) => self.stream.on_reconnect(stream)`
OnReconnect ==
    /\ link.pc = "return"
    /\ link' = [link EXCEPT !.pc = "idle", !.stream = link.fresh]
    /\ UNCHANGED notLinkVars

NextReconnect ==
    \/ LockConnection
    \/ \E ok \in BOOLEAN : Reconnect(ok)
    \/ \E ok \in BOOLEAN : TryFromConnection(ok)
    \/ \E ok \in BOOLEAN : SendHeader(ok)
    \/ \E answer \in Answers : BrokerAnswer(answer)
    \/ HandleReply
    \/ OnReconnect

SpecReconnect == InitReconnect /\ [][NextReconnect]_vars

-----------------------------------------------------------------------------
(* Claims about reconnection, checked under SpecReconnect                  *)

\* C25: every reconnection attempt of a publisher, subscriber or replier
\* stream reconnects the shared transport, opens a fresh channel, sends a
\* registration frame whose headers equal the headers the stream was opened
\* with, and waits for the broker's acknowledgement before the new channel is
\* returned and swapped in by on_reconnect; the stored headers are never
\* modified.
C25_ReconnectReplaysHeaders ==
    /\ link.headers = link.original
    /\ unwrap(link.stream).id > 0 =>
        /\ unwrap(link.stream).conn > 0
        /\ unwrap(link.stream).sent = Some(register_frame(link.kind, link.original))
        /\ unwrap(link.stream).acked


-----------------------------------------------------------------------------
(* The request/reply topic actor (server/src/topic/reqrep.rs) and the      *)
(* sockets handle_stream hands it (server/src/server.rs)                   *)

\* a handle_stream that hands a replier over as a requestor
socket_of_client(frame) == "Client"

\* handle_stream, `match frame`: RegisterReplier is handed over as
\* reqrep::Socket::Server, RegisterRequestor as reqrep::Socket::Client
socket_of(frame) ==
    IF frame.ty = "RegisterReplier" THEN "Server" ELSE "Client"

\* a channel no client has opened
NoChannel ==
    [header |-> "none", st |-> "none", signal |-> None, received |-> 0,
     client_id |-> 0, seen |-> 0]

\* reqrep::Topic on a Socket::Server: bind when the slot is empty, refuse
\* when it is occupied
bind_arm(slot) == IF slot = <<"None">> THEN "bind" ELSE "refuse"

-----------------------------------------------------------------------------
(* SpecReqRep: one request/reply topic, the channels registering with it   *)

\* the channels clients open on the topic
ChanIds == {1, 2, 3}

\* most requests the requestors send
MaxRequests == 2

notReqRepVars ==
    <<codecVars, wireVars, indexVars, topicVars, clientVars, cleanerVars, serverVars,
      keep, link, publisher>>

\* reqrep::Topic::pair: no replier bound, no requestor, client ids from 0
InitReqRep ==
    /\ reqrep = [NoReqRep EXCEPT !.chan = [id \in ChanIds |-> NoChannel]]
    /\ keep = NoKeepAlive
    /\ link = NoLink
    /\ publisher = NoPublisher
    /\ CodecIdle
    /\ WireIdle
    /\ IndexIdle
    /\ TopicIdle
    /\ ClientIdle
    /\ CleanerIdle
    /\ ServerIdle

\* handle_stream, `tx.send(Socket::Reqrep(reqrep::Socket::Server / Client(..)))`
HandOver(id, frame) ==
    /\ reqrep.chan[id].st = "none"
    /\ reqrep' = [reqrep EXCEPT
            !.queue = Append(@, [id |-> id, socket |-> socket_of(frame)]),
            !.chan[id].header = frame.ty,
            !.chan[id].st = "queued"]
    /\ UNCHANGED notReqRepVars

\* the actor takes a registration from its channel
Admit ==
    /\ reqrep.queue # <<>>
    /\ LET id == Head(reqrep.queue).id
           socket == Head(reqrep.queue).socket
       IN  IF socket = "Client"
           THEN reqrep' = [reqrep EXCEPT
                    !.queue = Tail(@),
                    !.chan[id].st = "client",
                    !.chan[id].client_id = reqrep.next_client_id,
                    !.next_client_id = @ + 1]
           ELSE IF bind_arm(reqrep.server) = "bind"
           THEN reqrep' = [reqrep EXCEPT
                    !.queue = Tail(@),
                    !.server = Some(id),
                    !.chan[id].st = "bound",
                    !.chan[id].received = @ + reqrep.buffered,
                    !.buffered = 0]
           ELSE reqrep' = [reqrep EXCEPT
                    !.queue = Tail(@),
                    !.chan[id].st = "closed",
                    !.chan[id].signal = "ReplierAlreadyBound",
                    !.chan[id].seen = reqrep.chan[unwrap(reqrep.server)].received]
    /\ UNCHANGED notReqRepVars

\* a frame from a requestor: forwarded to the bound replier, buffered when
\* none is bound
ClientRequest(id) ==
    /\ reqrep.chan[id].st = "client"
    /\ reqrep.requests < MaxRequests
    /\ reqrep' = IF reqrep.server = <<"None">>
                 THEN [reqrep EXCEPT !.requests = @ + 1, !.buffered = @ + 1]
                 ELSE [reqrep EXCEPT !.requests = @ + 1,
                                     !.chan[unwrap(reqrep.server)].received = @ + 1]
    /\ UNCHANGED notReqRepVars

\* the bound replier departs: the slot is emptied
ReplierDeparts ==
    /\ reqrep.server # <<"None">>
    /\ reqrep' = [reqrep EXCEPT !.server = <<"None">>,
                                !.chan[unwrap(reqrep.server)].st = "closed"]
    /\ UNCHANGED notReqRepVars

NextReqRep ==
    \/ \E id \in ChanIds, ty \in {"RegisterReplier", "RegisterRequestor"} :
         \E name \in {"/moo/cow"} : HandOver(id, Register(ty, name))
    \/ Admit
    \/ \E id \in ChanIds : ClientRequest(id)
    \/ ReplierDeparts

SpecReqRep == InitReqRep /\ [][NextReqRep]_vars

-----------------------------------------------------------------------------
(* Claims about the request/reply topic, checked under SpecReqRep          *)

\* the channels bound as the topic's replier
Bound == {id \in ChanIds : reqrep.chan[id].st = "bound"}

\* C26: in every reachable state of a request/reply topic at most one replier
\* is bound; a second replier that registers while the slot is occupied, also
\* concurrently with the first, is answered with ReplierAlreadyBound and its
\* channel is closed, and the replier already bound keeps receiving the
\* requests.
C26_ReplierUniqueness ==
    /\ [](/\ Cardinality(Bound) <= 1
          /\ \A id \in ChanIds : (reqrep.server = Some(id)) <=> (id \in Bound))
    /\ [](\A id \in ChanIds :
            /\ reqrep.chan[id].header = "RegisterReplier" =>
                    reqrep.chan[id].st \in {"queued", "bound", "closed"}
            /\ reqrep.chan[id].signal = "ReplierAlreadyBound" =>
                    /\ reqrep.chan[id].st = "closed"
                    /\ reqrep.chan[id].header = "RegisterReplier")
    /\ [][\A id \in ChanIds :
            (/\ reqrep.chan[id].header = "RegisterReplier"
             /\ reqrep.chan[id].st = "queued"
             /\ reqrep'.chan[id].st # "queued"
             /\ reqrep.server # <<"None">>) =>
                /\ reqrep'.chan[id].st = "closed"
                /\ reqrep'.chan[id].signal = "ReplierAlreadyBound"
                /\ reqrep'.server = reqrep.server
                /\ reqrep'.chan[unwrap(reqrep.server)] = reqrep.chan[unwrap(reqrep.server)]]_vars
    /\ [][\A id \in ChanIds :
            reqrep'.chan[id].received > reqrep.chan[id].received =>
                reqrep'.chan[id].st = "bound"]_vars

C26_Witness ==
    /\ reqrep.chan[1].st = "bound"
    /\ reqrep.chan[2].signal = "ReplierAlreadyBound"
    /\ reqrep.chan[2].st = "closed"
    /\ reqrep.chan[3].st = "client"
    /\ reqrep.chan[1].received > reqrep.chan[2].seen


-----------------------------------------------------------------------------
(* SpecActor: one pub/sub topic with two publishers, the errors its actor  *)
(* meets on a publisher stream and on the subscribers' queue               *)

\* the stream ids of the two publishers
PublisherIds == {0, 1}

\* the offsets the sinks ask for
ActorOffsets == {FromEnd(0)}

\* the frames the publishers send for the n-th write
ActorFrames(n) == {send_single(Msg(n, 1)), [ty |-> "Ok"]}

InitActor == InitTopic

\* the task Topic::pair spawned for Subscribers::run is gone (the runtime
\* dropped it): the receiver of notify, and what it held, is dropped
SupervisorGone ==
    /\ supervisor.status = "running"
    /\ supervisor' = [supervisor EXCEPT !.status = "gone"]
    /\ notify' = <<>>
    /\ subscribers' = [s \in SubIds |->
            IF subscribers[s].st = "queued"
            THEN [subscribers[s] EXCEPT !.st = "dropped"]
            ELSE subscribers[s]]
    /\ UNCHANGED <<log, published, topic, handle, step, notTopicVars>>

\* the client of a sink leaves: every later sink.send fails
ClientGone(s) ==
    /\ subscribers[s].st \in {"queued", "polling"}
    /\ ~subscribers[s].gone
    /\ subscribers' = [subscribers EXCEPT ![s].gone = TRUE]
    /\ UNCHANGED <<log, published, topic, handle, notify, supervisor, step,
                   notTopicVars>>

\* one round of a subscriber task's loop in which log.read_slice fails:
\* poll_for_messages returns the error with `?`, and the arm
\* `_ = subscriber.poll_for_messages(..) => continue` drops it
PollReadFails(s) ==
    /\ subscribers[s].st = "polling"
    /\ subscribers' = [subscribers EXCEPT ![s] =
            IF supervisor.token THEN [@ EXCEPT !.st = "done"]
            ELSE [@ EXCEPT !.read_failed = TRUE]]
    /\ UNCHANGED <<log, published, topic, handle, notify, supervisor, step,
                   notTopicVars>>

NextActor ==
    \/ \E id \in PublisherIds, ok \in BOOLEAN :
         \E frame \in ActorFrames(Len(log) + 1) : PublisherFrame(id, frame, ok)
    \/ \E id \in PublisherIds : PublisherErr(id)
    \/ \E id \in PublisherIds : PublisherEnd(id)
    \/ Attach(PublisherIds)
    \/ \E offset \in ActorOffsets : RegisterSink(offset)
    \/ CloseChannel
    \/ SelectDisabled
    \/ Spawn
    \/ SupervisorGone
    \/ SupervisorReturn
    \/ \E s \in SubIds : Poll(s)
    \/ \E s \in SubIds : ClientGone(s)
    \/ \E s \in SubIds : PollReadFails(s)

SpecActor == InitActor /\ [][NextActor]_vars

-----------------------------------------------------------------------------
(* Claims about the actor's error paths, checked under SpecActor           *)

\* the publishers registered with the topic
RegisteredPublishers == {id \in PublisherIds : id \in topic.publishers}

\* C28: an Err item on one registered publisher's stream leaves the topic to
\* its other clients: once it has been taken the actor is running and goes on
\* taking the frames of the registered publishers, with no new registration
\* needed to bring it back to them.
C28_PublisherErrorIsolated ==
    (step.ty = "Err" /\ RegisteredPublishers = PublisherIds) =>
        /\ topic.status = "running"
        /\ topic.select = "both"

\* C29: when the subscribers' queue is closed and a sink registers, only that
\* subscriber is lost: the topic actor is running afterwards.
C29_NotifyFailureKeepsActor ==
    step.res = "NotifySubscribers" => topic.status = "running"


-----------------------------------------------------------------------------
(* Claims about broker-reported errors at the client, checked under        *)
(* SpecSubscriber                                                          *)

\* the call of poll_next that takes an Error frame from the stream
TakesError ==
    /\ stream # <<>>
    /\ Head(stream).ty = "Error"
    /\ stream' = Tail(stream)
    /\ Len(yielded') = Len(yielded) + 1

\* C30: when the client Subscriber takes an Error frame of the broker from
\* its stream, poll_next yields an Err item carrying that error: it does not
\* end the stream.
C30_BrokerErrorSurfaced ==
    [][TakesError =>
        LET item == yielded'[Len(yielded')] IN
        /\ item # EndOfStream
        /\ item = Ready(Some(Err("OpenStream")))]_vars


-----------------------------------------------------------------------------
(* Further claims about Codec::state, checked under SpecCodec              *)

\* the frame kinds that can be the last accepted frame of a codec with this role
LegalLast(stream_type) ==
    CASE stream_type = None -> {"Init", "Signal"}
      [] stream_type \in {"Publisher", "Subscriber"} ->
            {"NewStream", "Message", "Batch", "Signal"}
      [] stream_type = "Requestor" -> {"NewStream", "Request", "Reply", "Signal"}
      [] stream_type = "Replier" ->
            {"NewStream", "ServerRequest", "ServerReply", "Signal"}

\* C32: in every reachable codec state last_frame is one of the kinds legal
\* for the learned role (none: Init or Signal; Publisher or Subscriber:
\* NewStream, Message, Batch, Signal; Requestor: NewStream, Request, Reply,
\* Signal; Replier: NewStream, ServerRequest, ServerReply, Signal), and once
\* set, stream_type and path never change.
C32_LastFrameConsistentWithRole ==
    /\ [](/\ codec.last_frame \in LegalLast(codec.stream_type)
          /\ (codec.stream_type = None) <=> (codec.path = None))
    /\ [][codec.stream_type # None =>
            /\ codec'.stream_type = codec.stream_type
            /\ codec'.path = codec.path]_vars

C32_Witness ==
    /\ codec.stream_type = "Replier"
    /\ codec.last_frame = "ServerReply"
    /\ call.pre.stream_type = "Replier"
    /\ call.item.ty = "NewStream"
    /\ call.sending
    /\ Rejected

\* C33: a call of state() that returns FrameOutOfOrder leaves last_frame,
\* stream_type and path as they were, so the frames that were legal before
\* the call are the frames legal after it.
C33_RejectionLeavesCodec ==
    Rejected =>
        /\ codec.last_frame = call.pre.last_frame
        /\ codec.stream_type = call.pre.stream_type
        /\ codec.path = call.pre.path
        /\ \A item \in Frames, sending \in BOOLEAN :
                accepts(codec, item, sending) <=> accepts(call.pre, item, sending)

C33_Witness ==
    /\ Rejected
    /\ call.pre.stream_type = "Publisher"
    /\ call.pre.last_frame = "Message"
    /\ call.item.ty = "Request"
    /\ codec.last_frame = "Message"

\* a codec that has accepted a Signal and never a NewStream
SignalledUnopened(self) == self.stream_type = None /\ self.last_frame = "Signal"

\* C35: a Signal received on a codec that has sent no NewStream is accepted
\* and moves last_frame from Init to Signal; on the codec so reached no
\* NewStream is accepted, stream_type stays none, and the only calls accepted
\* are further received Signals, which leave it in the same state.
C35_SignalBeforeNewStreamSeals ==
    /\ (Called /\ call.pre = Default /\ call.item.ty = "Signal" /\ ~call.sending) =>
            Accepted /\ SignalledUnopened(codec)
    /\ (Called /\ SignalledUnopened(call.pre)) =>
            /\ Accepted <=> (call.item.ty = "Signal" /\ ~call.sending)
            /\ call.item.ty = "NewStream" => Rejected
            /\ SignalledUnopened(codec)

C35_Witness ==
    /\ SignalledUnopened(call.pre)
    /\ call.item.ty = "NewStream"
    /\ call.sending
    /\ Rejected
    /\ SignalledUnopened(codec)


-----------------------------------------------------------------------------
(* Further claims about Encoder::encode, checked under SpecWire            *)

\* the frame handed to the last encode() was legal in the sending sequence
InSequence == accepts(enc.pre, enc.item, SENDING)

\* C34: encode checks the sequence before the size. A frame that is out of
\* order is reported as FrameOutOfOrder, also when it is larger than
\* MAX_FRAME_SIZE, and leaves the codec as it was; a frame legal in sequence
\* but larger than MAX_FRAME_SIZE fails with FrameTooLarge after the codec
\* has recorded it as last_frame (and, for NewStream, has set stream_type
\* and path), and no byte is emitted for it.
C34_SequenceBeforeSize ==
    Encoded =>
        /\ ~InSequence =>
                /\ enc.res = FrameOutOfOrder(enc.item.ty, enc.pre.last_frame)
                /\ codec = enc.pre
                /\ enc.emitted = 0
        /\ (InSequence /\ size(enc.item) > enc.pre.max_frame_size) =>
                /\ enc.res = FrameTooLarge(size(enc.item), enc.pre.max_frame_size)
                /\ codec.last_frame = enc.item.ty
                /\ enc.item.ty = "NewStream" =>
                        /\ codec.stream_type = enc.item.role
                        /\ codec.path = enc.item.path
                /\ enc.emitted = 0

C34_Witness ==
    /\ Encoded
    /\ enc.pre = Default
    /\ enc.item = NewStream("Publisher", LongPath)
    /\ enc.res[1] = "FrameTooLarge"
    /\ codec.last_frame = "NewStream"
    /\ codec.stream_type = "Publisher"
    /\ codec.path = LongPath
    /\ enc.emitted = 0


-----------------------------------------------------------------------------
(* Further claims about the keep-alive supervisor, checked under           *)
(* SpecKeepAlive                                                           *)

\* a codec failure met while handling one request
CodecFailures == {Err("DecodeFailure"), Err("EncodeFailure")}

\* C31: a codec failure is unrecoverable for the message, not for the
\* stream: after the Replier fails to decode one request or to encode one
\* reply, listen() goes on with the following requests on the same stream.
C31_CodecFailureKeepsStream ==
    [][(/\ keep.pc = "op"
        /\ keep.op = "listen"
        /\ keep'.outcome \in CodecFailures
        /\ keep' # keep) => keep'.pc = "op"]_vars

\* C36: KeepAlive<Replier>::listen never returns Ok: when the inner listen
\* returns Ok the supervisor goes to try_reconnect as it does on a
\* recoverable error, and the call returns only with an unrecoverable error
\* or with TooManyRetries.
C36_ListenNeverReturnsOk ==
    /\ []((keep.op = "listen" /\ keep.pc = "done") =>
            /\ keep.result \notin {Ok, <<"None">>}
            /\ keep.result = Err("TooManyRetries") \/ Unrecoverable(keep.result))
    /\ [][(/\ keep.op = "listen"
           /\ keep.pc = "op"
           /\ keep'.pc # "op"
           /\ (keep'.outcome = Ok \/ ~Unrecoverable(keep'.outcome))) =>
                /\ keep'.pc = "next"
                /\ keep'.result = keep.result
                /\ keep'.attempts = keep.attempts]_vars

C36_Witness ==
    /\ keep.op = "listen"
    /\ keep.outcome = Ok
    /\ keep.pc = "next"
    /\ keep.served > 0
    /\ keep.calls = 0

\* C37: one call of KeepAlive<Requestor>::request hands the same request to
\* the stream once at first and once more after every successful
\* reconnection, between 1 and max_attempts + 1 times in all, and returns at
\* most one reply: a request whose transport fails after it was written can
\* reach the replier more than once.
C37_RequestResent ==
    /\ [](keep.op = "request" =>
            /\ Len(keep.sent) <= keep.calls + 1
            /\ Len(keep.sent) <= keep.backoff_strategy.max_attempts + 1
            /\ \A i \in 1..Len(keep.sent) : keep.sent[i] = keep.req
            /\ keep.pc = "done" => Len(keep.sent) >= 1)
    /\ [][(/\ keep.op = "request"
           /\ keep.pc = "reestablish"
           /\ keep'.outcome = Ok) => keep'.pc = "op"]_vars
    /\ [][(/\ keep.op = "request"
           /\ keep.pc = "op"
           /\ keep' # keep) =>
                /\ keep'.sent = Append(keep.sent, keep.req)
                /\ keep'.result = Ok => keep'.pc = "done"]_vars

C37_Witness ==
    /\ keep.op = "request"
    /\ keep.backoff_strategy.max_attempts = MaxAttempts
    /\ Len(keep.sent) = MaxAttempts + 1
    /\ keep.pc = "done"
    /\ keep.result = Ok


-----------------------------------------------------------------------------
(* Claims about the subscriber tasks and the shutdown of a topic, checked  *)
(* under SpecActor                                                         *)

\* C39: a broker-side subscriber task does not stop when its sink fails: a
\* failed sink.send (client gone) and a failed log read are both ignored,
\* a round that reads a slice moves the cursor to the slice's end offset
\* whether or not its messages reach the client, and the task keeps polling
\* as long as the shared cancellation token is not cancelled.
C39_SubscriberTaskKeepsPolling ==
    /\ [][\A s \in SubIds :
            (subscribers[s].st = "polling" /\ ~supervisor.token) =>
                /\ subscribers'[s].st = "polling"
                /\ (subscribers'[s].read_failed /\ ~subscribers[s].read_failed) =>
                        /\ subscribers'[s].offset = subscribers[s].offset
                        /\ subscribers'[s].sink = subscribers[s].sink
                /\ subscribers'[s].offset # subscribers[s].offset =>
                        /\ subscribers'[s].offset =
                              read_slice(log, subscribers[s].offset).end_offset
                        /\ subscribers[s].gone =>
                              subscribers'[s].sink = subscribers[s].sink]_vars
    /\ [](\A s \in SubIds :
            subscribers[s].st = "done" => supervisor.token)

C39_Witness ==
    /\ subscribers[1].st = "polling"
    /\ subscribers[1].gone
    /\ subscribers[1].read_failed
    /\ subscribers[1].start = 0
    /\ subscribers[1].offset = 2
    /\ subscribers[1].sink = <<>>
    /\ ~supervisor.token

\* C40: shutdown terminates: once close_channel has been called on the
\* topic's sender the topic task finishes, also while publisher streams are
\* registered, open and idle: the task needs no frame and no end of a
\* publisher stream to finish.
C40_ClosedTopicFinishes ==
    (handle = "closed" /\ topic.status = "running") => ENABLED SelectDisabled


-----------------------------------------------------------------------------
(* The client Publisher with batching: client/src/streams/pubsub/publisher.rs *)

\* the number of messages that fills a batch (BatchConfig)
MaxBatch == 2

\* MessageBatch::is_ready: the batch is full, or its interval has elapsed
\* and it holds a message
is_ready(pending, elapsed) == Len(pending) >= MaxBatch \/ (elapsed /\ pending # <<>>)

\* Publisher::send_batch: drain the batch, compress, hand the frame to the
\* stream; comp_ok: compression succeeds, send_ok: start_send_unpin succeeds
send_batch_now(self, comp_ok, send_ok) ==
    LET messages == self.batch
        frame    == send_batch(messages)
    IN  IF self.compression /\ ~comp_ok
        THEN [self EXCEPT !.batch = <<>>, !.res = Err("CompressFailure")]
        ELSE IF ~send_ok
        THEN [self EXCEPT !.batch = <<>>, !.res = Err("ConnectionError")]
        ELSE [self EXCEPT !.batch = <<>>,
                          !.stream.frames = Append(@, frame),
                          !.handed = @ \o messages,
                          !.res = Ok]

\* Publisher::flush_batch
flush_batch(self, comp_ok, send_ok) ==
    IF self.batch # <<>> THEN send_batch_now(self, comp_ok, send_ok)
    ELSE [self EXCEPT !.res = Ok]

-----------------------------------------------------------------------------
(* SpecPublisher: one batching Publisher used as a Sink                     *)

\* most messages the user sends
MaxAccepted == 3

\* the items the user sends
PublisherItems == {1, 2}

notPublisherVars ==
    <<codecVars, wireVars, indexVars, topicVars, clientVars, cleanerVars, serverVars,
      keep, link, reqrep>>

\* Publisher::spawn with a batch_config: an empty batch, the stream open_stream gave
InitPublisher ==
    /\ \E compression \in BOOLEAN :
         publisher = [NoPublisher EXCEPT !.st = "open", !.compression = compression]
    /\ keep = NoKeepAlive
    /\ link = NoLink
    /\ reqrep = NoReqRep
    /\ CodecIdle
    /\ WireIdle
    /\ IndexIdle
    /\ TopicIdle
    /\ ClientIdle
    /\ CleanerIdle
    /\ ServerIdle

\* Sink::start_send; ok: encoder.encode succeeds
StartSend(item, ok) ==
    /\ publisher.st = "open"
    /\ Len(publisher.accepted) < MaxAccepted
    /\ publisher' =
            IF ok
            THEN [publisher EXCEPT !.batch = Append(@, encoder_encode(item)),
                                   !.accepted = Append(@, encoder_encode(item)),
                                   !.res = Ok]
            ELSE [publisher EXCEPT !.res = Err("EncodeFailure")]
    /\ UNCHANGED notPublisherVars

\* Sink::poll_ready; elapsed: the batch interval has passed
PollReady(elapsed, comp_ok, send_ok) ==
    /\ publisher.st = "open"
    /\ publisher' =
            IF is_ready(publisher.batch, elapsed)
            THEN send_batch_now(publisher, comp_ok, send_ok)
            ELSE [publisher EXCEPT !.res = Ok]
    /\ UNCHANGED notPublisherVars

\* Publisher::finish: `self.flush_batch()?` then `self.stream.finish().await`;
\* the Publisher is consumed
Finish(comp_ok, send_ok) ==
    /\ publisher.st = "open"
    /\ LET flushed == flush_batch(publisher, comp_ok, send_ok) IN
       publisher' = [flushed EXCEPT
            !.st = IF flushed.res = Ok THEN "finished" ELSE "dropped"]
    /\ UNCHANGED notPublisherVars

\* KeepAliveStream::on_reconnect: `self.stream = stream`
PublisherOnReconnect ==
    /\ publisher.st = "open"
    /\ publisher.stream.id < MaxReconnects
    /\ publisher' = [publisher EXCEPT
            !.stream = [id |-> publisher.stream.id + 1, frames |-> <<>>]]
    /\ UNCHANGED notPublisherVars

NextPublisher ==
    \/ \E item \in PublisherItems, ok \in BOOLEAN : StartSend(item, ok)
    \/ \E elapsed \in BOOLEAN, comp_ok \in BOOLEAN, send_ok \in BOOLEAN :
         PollReady(elapsed, comp_ok, send_ok)
    \/ \E comp_ok \in BOOLEAN, send_ok \in BOOLEAN : Finish(comp_ok, send_ok)
    \/ PublisherOnReconnect

SpecPublisher == InitPublisher /\ [][NextPublisher]_vars

-----------------------------------------------------------------------------
(* Claims about the batching Publisher, checked under SpecPublisher        *)

\* C38: a batching Publisher never loses a message it accepted in
\* start_send: every accepted message is still in the pending batch or has
\* been handed to the stream inside a Batch frame, also when send_batch
\* fails and across on_reconnect; and when finish() has half-closed the
\* stream no message is left in the batch.
C38_AcceptedNeverLost ==
    /\ publisher.accepted = publisher.handed \o publisher.batch
    /\ publisher.st = "finished" => publisher.batch = <<>>

=============================================================================
